---- MODULE Spec2Model ----
(***************************************************************************)
(* Time-budgeted progressive loading and multi-tier caching of the EPG     *)
(* aggregator, src/scheduler/index_progressive.js.  The file holds two     *)
(* variants of the same handler: the "enhanced" one (lines 1-511) and the  *)
(* "hobby" one (lines 513-871).  The variable `variant` says which of the  *)
(* two is deployed; it never changes.                                      *)
(*                                                                         *)
(* Time is in milliseconds, as returned by Date.now().  A request slot r   *)
(* is one invocation of handler(); a slot runs synchronously (it holds     *)
(* `running`) between two awaits, as JavaScript's single thread does.      *)
(***************************************************************************)
EXTENDS Integers, Sequences, FiniteSets, TLC

\* ------------------------------------------------------------------ bounds
\* Number of keys of CHANNEL_MAP (utils/channelMap.js is an input).
NumChannels == 3
\* Number of GET / requests a behaviour of Spec follows.
MaxRequests == 2
\* Programme elements in one upstream payload.
MaxProgs == 1
\* Records in a list handed to the serializer on its own.
MaxRecords == 4
\* Calls of fetchChannelEPG followed together, as one batch starts them.
MaxFetches == 2
\* Largest season and episode number of the run 0..MaxEpisode handed to
\* buildProgramme on its own (0 stands for a missing number).
MaxEpisode == 12

\* --------------------------------------------------------------- constants
NULL == "null"
EMPTY == ""

\* FULL_CACHE_DURATION, 30 minutes in both variants.
FULL_CACHE_DURATION == 30 * 60 * 1000
\* TTL of a channel-level cache entry: the literal 60 * 60 * 1000.
CHANNEL_CACHE_DURATION == 60 * 60 * 1000

VARIABLES
    variant,        \* "enhanced" | "hobby": which handler is deployed
    GROQ_API_KEY,   \* TRUE iff a classifier key is configured
    CHANNEL_MAP,    \* tvgId -> epgId (NULL, EMPTY or an upstream id)
    clock,          \* the value Date.now() returned last
    fullCache,      \* [data, timestamp, channelCount, programmeCount]
    partialCache,   \* [data, timestamp, channelCount, programmeCount]
    channelCache,   \* tvgId -> NULL | [xml, timestamp]
    req,            \* slot -> the locals of that invocation of handler()
    running,        \* the slot that holds the thread, 0 when none does
    maxInFlight,    \* invocations the deployment lets overlap
    budget,         \* number of GET / requests still to be followed
    history,        \* what has happened so far; the code does not read it
    call,           \* a library function called on its own: [fn, args, result]
    fetches         \* calls of fetchChannelEPG followed step by step

vars == <<variant, GROQ_API_KEY, CHANNEL_MAP, clock, fullCache, partialCache,
          channelCache, req, running, maxInFlight, budget, history, call, fetches>>

config == <<variant, GROQ_API_KEY, CHANNEL_MAP, maxInFlight>>

\* Request slots: invocations of handler() that may be in flight together.
Slots == {1, 2}
TvgIds == 1..NumChannels

\* PARTIAL_CACHE_DURATION: 5 minutes (enhanced), 3 minutes (hobby).
PARTIAL_CACHE_DURATION == IF variant = "hobby" THEN 3 * 60 * 1000 ELSE 5 * 60 * 1000
\* MAX_EXECUTION_TIME: 8000 ms (enhanced), 5000 ms (hobby).
MAX_EXECUTION_TIME == IF variant = "hobby" THEN 5000 ELSE 8000


\* ------------------------------------------------------------ small helpers
None == <<>>
Some(x) == <<x>>
Min(a, b) == IF a < b THEN a ELSE b

\* Array.prototype.slice(from, to) with 0-based bounds, as used on chunks/batches.
Slice(s, from, to) == SubSeq(s, from + 1, Min(to, Len(s)))

RECURSIVE SeqToSet(_)
SeqToSet(s) == IF s = <<>> THEN {} ELSE {Head(s)} \cup SeqToSet(Tail(s))

\* ------------------------------------------------------------------ inputs
\* Upstream ids a registry entry may carry: null, '' or a usable id.
EpgIds == {NULL, EMPTY, "epg"}
\* Titles of the programme elements an upstream payload may hold.  Only the
\* enrichment pre-filter looks at a title, so a second one is offered only
\* where enrichment can run.
Titles == IF GROQ_API_KEY THEN {"Show", "NFL Football"} ELSE {"Show"}
\* An upstream payload that passed fetchChannelEPG: the titles of its
\* <programme> elements, in document order.
Payloads == UNION {[1..n -> Titles] : n \in 0..MaxProgs}
\* What fetchChannelEPG(tvgId, epgId) resolves to: null, or {tvgId, xml}.
FetchResults == {[ok |-> FALSE, xml |-> <<>>]} \cup {[ok |-> TRUE, xml |-> x] : x \in Payloads}

\* ----------------------------------------------------- per-variant settings
\* BATCH_SIZE and CHANNELS_PER_CHUNK are 8 and 30 (enhanced), 5 and 15 (hobby)
\* in the source.  The loops depend only on batch < chunk and on how the
\* registry compares with a chunk, so the model keeps that shape at sizes a
\* registry of NumChannels can exercise: the enhanced loader fetches several
\* channels per batch and the whole registry in one chunk, the hobby loader
\* needs more than one chunk.
BATCH_SIZE == IF variant = "hobby" THEN 1 ELSE 2
CHANNELS_PER_CHUNK == IF variant = "hobby" THEN 2 ELSE 3

\* A slip in the threshold: half of the registry counts as a full build.
isFullBuild_HalfCoverage(obtained, totalValidChannels) ==
    obtained * 2 >= totalValidChannels

\* isFullBuild: channelResults.length >= totalValidChannels * 0.9 (enhanced)
\* or * 0.85 (hobby); both products are exact in IEEE doubles for these sizes.
isFullBuild(obtained, totalValidChannels) ==
    IF variant = "hobby" THEN obtained * 100 >= totalValidChannels * 85
                         ELSE obtained * 10 >= totalValidChannels * 9

\* elapsed > maxTime * 0.3 (hobby) / maxTime * 0.8 (enhanced): end of cache drain.
DrainGuard(elapsed, maxTime) ==
    IF variant = "hobby" THEN elapsed * 10 > maxTime * 3
                         ELSE elapsed * 10 > maxTime * 8

\* elapsed > maxTime * 0.7 (hobby) / maxTime * 0.85 (enhanced): stop fetching.
FetchGuard(elapsed, maxTime) ==
    IF variant = "hobby" THEN elapsed * 10 > maxTime * 7
                         ELSE elapsed * 100 > maxTime * 85

\* hobby only: Date.now() - startTime > MAX_EXECUTION_TIME * 0.85 during extraction.
ExtractGuard(elapsed) == elapsed * 100 > MAX_EXECUTION_TIME * 85

\* ---------------------------------------------------------------- the clock
\* Elapsed times just past the thresholds the code compares elapsed time with.
DrainMark == IF variant = "hobby" THEN (MAX_EXECUTION_TIME * 3) \div 10 + 1
                                  ELSE (MAX_EXECUTION_TIME * 8) \div 10 + 1
FetchMark == IF variant = "hobby" THEN (MAX_EXECUTION_TIME * 7) \div 10 + 1
                                  ELSE (MAX_EXECUTION_TIME * 85) \div 100 + 1
ExtractMark == (MAX_EXECUTION_TIME * 85) \div 100 + 1
EnrichMarks == {(MAX_EXECUTION_TIME * 7) \div 10 - 1, (MAX_EXECUTION_TIME * 7) \div 10,
                (MAX_EXECUTION_TIME * 8) \div 10 + 1}

\* Values the next Date.now() of slot r may return: the value returned last
\* (no time has passed) or a later one that puts elapsed time at one of
\* `marks`.  Time never runs backwards.
Later(r, marks) == {t \in {clock} \cup {req[r].startTime + m : m \in marks} : t >= clock}

\* Elapsed time just past the whole budget.
OverrunMark == MAX_EXECUTION_TIME + 1

\* What Date.now() may return when the fetches of a batch have settled.
AfterFetch(r) ==
    Later(r, {FetchMark, OverrunMark}
             \cup (IF variant = "hobby" THEN {ExtractMark} ELSE {})
             \cup (IF GROQ_API_KEY THEN EnrichMarks ELSE {}))

\* Instants at which a cached item turns stale.
Expiries ==
    (IF fullCache.data # None THEN {fullCache.timestamp + FULL_CACHE_DURATION} ELSE {})
    \cup (IF partialCache.data # None
          THEN {partialCache.timestamp + PARTIAL_CACHE_DURATION} ELSE {})
    \cup {channelCache[c].timestamp + CHANNEL_CACHE_DURATION :
             c \in {x \in TvgIds : channelCache[x].present}}

\* Values Date.now() may return when a request arrives.
Arrivals == {t \in {clock} \cup Expiries : t >= clock}

\* ------------------------------------------------------------------- state
\* fullCache / partialCache as declared at lines 16-29 and 529-541; a null
\* document is None and a null timestamp is 0 (both falsy, as in the code).
EmptyTier == [data |-> None, timestamp |-> 0, channelCount |-> 0, programmeCount |-> 0]

\* channelCache.get(tvgId) of a key never set.
NoEntry == [present |-> FALSE, xml |-> <<>>, timestamp |-> 0]

NoResponse == [status |-> 0, xCache |-> "", body |-> "", doc |-> None, xWarning |-> FALSE]

\* The locals of one invocation of handler() and of the loader it calls.  The
\* fields from tiersAtArrival on record what the invocation did and met; the
\* code does not read them.
IdleReq ==
    [pc |-> "idle",
     startTime |-> 0, now |-> 0, loaderNow |-> 0,
     allResults |-> <<>>, drainIdx |-> 0, remainingChannels |-> <<>>,
     i |-> 0, j |-> 0, batch |-> <<>>, results |-> <<>>, pending |-> {},
     extractIdx |-> 0, allProgrammes |-> <<>>,
     seriesToEnrich |-> <<>>, aiIdx |-> 0, aiResults |-> <<>>, aiJ |-> 0,
     response |-> NoResponse,
     tiersAtArrival |-> [full |-> EmptyTier, partial |-> EmptyTier],
     liveAtStart |-> {}, fetched |-> {}, batchStartedAt |-> 0, obtained |-> 0,
     afterRefresh |-> FALSE, preRefresh |-> FALSE,
     failed |-> {}, refetched |-> {},
     priorOutput |-> None, drainCut |-> FALSE, batches |-> 0]

\* history.quiet: /refresh was handled while no invocation was in flight, and
\*   no GET / has arrived since.
\* history.refreshAnswer: status of the last answer to /refresh, 0 when none.
\* history.old: the tier's document was built by an invocation that held
\*   payloads when a /refresh was handled.
\* history.fetchedAt: when the fetch was issued whose payload the channel
\*   cache holds for the channel, 0 when it holds none.
\* history.lastOutput: the channels of the loader output of the rebuild that
\*   completed last, None when none has completed since the last /refresh.
\* req[r].priorOutput: history.lastOutput as the invocation found it, when
\*   every one of those channels had a live channel-cache entry; else None.
\* req[r].drainCut: the cache-drain loop left at its time guard before it had
\*   reached the end of the registry.
\* req[r].batches: how many batches of fetches the loader has started.
NoHistory ==
    [quiet |-> FALSE, refreshAnswer |-> 0,
     old |-> [full |-> FALSE, partial |-> FALSE],
     fetchedAt |-> [c \in TvgIds |-> 0],
     lastOutput |-> None]

\* No library function is followed on its own.
NoCall == [fn |-> "", args |-> <<>>, result |-> None]

\* Registries the model is run on: the first keys may lack an upstream id
\* (null for the first, '' for the second), the others have one.
Registries ==
    {[c \in TvgIds |-> IF c > k THEN "epg" ELSE IF c = 1 THEN NULL ELSE EMPTY] : k \in 0..2}

InitCommon ==
    /\ variant \in {"enhanced", "hobby"}
    /\ CHANNEL_MAP \in Registries
    /\ clock = 1
    /\ fullCache = EmptyTier
    /\ partialCache = EmptyTier
    /\ channelCache = [c \in TvgIds |-> NoEntry]
    /\ req = [r \in Slots |-> IdleReq]
    /\ running = 0
    /\ history = NoHistory
    /\ call = NoCall
    /\ fetches = <<>>

\* Deployments without a classifier key (the hobby variant hard-codes null).
\* One invocation at a time.
Init == InitCommon /\ GROQ_API_KEY = FALSE /\ maxInFlight = 1 /\ budget = MaxRequests

\* ------------------------------------------------------ registry and caches
\* Half of the filter: only a null upstream id is dropped, '' is kept.
RECURSIVE FilterValid_NullOnly(_)
FilterValid_NullOnly(ids) ==
    IF ids = <<>> THEN <<>>
    ELSE IF CHANNEL_MAP[Head(ids)] # NULL
         THEN <<Head(ids)>> \o FilterValid_NullOnly(Tail(ids))
         ELSE FilterValid_NullOnly(Tail(ids))

RECURSIVE FilterValid(_)
FilterValid(ids) ==
    IF ids = <<>> THEN <<>>
    ELSE IF CHANNEL_MAP[Head(ids)] # NULL /\ CHANNEL_MAP[Head(ids)] # EMPTY
         THEN <<Head(ids)>> \o FilterValid(Tail(ids))
         ELSE FilterValid(Tail(ids))

\* Object.entries(CHANNEL_MAP).filter(([_, epgId]) => epgId !== null && epgId !== '')
channelsToFetch == FilterValid([c \in TvgIds |-> c])

\* Object.values(CHANNEL_MAP).filter(id => id !== null && id !== '').length
totalValidChannels == Len(channelsToFetch)

\* A slip in the comparison: a tier aged exactly its TTL still counts as fresh.
FullFresh_Inclusive(now) ==
    /\ fullCache.data # None
    /\ fullCache.timestamp # 0
    /\ now - fullCache.timestamp <= FULL_CACHE_DURATION

\* A slip in the comparison: the age test is the wrong way round.
FullFresh_Reversed(now) ==
    /\ fullCache.data # None
    /\ fullCache.timestamp # 0
    /\ now - fullCache.timestamp > FULL_CACHE_DURATION

\* fullCache.data && fullCache.timestamp && (now - fullCache.timestamp < FULL_CACHE_DURATION)
FullFresh(now) ==
    /\ fullCache.data # None
    /\ fullCache.timestamp # 0
    /\ now - fullCache.timestamp < FULL_CACHE_DURATION

\* partialCache.data && partialCache.timestamp && (now - partialCache.timestamp < PARTIAL_CACHE_DURATION)
PartialFresh(now) ==
    /\ partialCache.data # None
    /\ partialCache.timestamp # 0
    /\ now - partialCache.timestamp < PARTIAL_CACHE_DURATION

\* A slip in the comparison: an entry aged exactly one hour is still used.
ChannelCacheHit_Inclusive(c, now) ==
    /\ channelCache[c].present
    /\ now - channelCache[c].timestamp <= CHANNEL_CACHE_DURATION

\* The wrong TTL: an entry is used for as long as the full tier is.
ChannelCacheHit_TierTTL(c, now) ==
    /\ channelCache[c].present
    /\ now - channelCache[c].timestamp < FULL_CACHE_DURATION

\* cached && (now - cached.timestamp < 60 * 60 * 1000)
ChannelCacheHit(c, now) ==
    /\ channelCache[c].present
    /\ now - channelCache[c].timestamp < CHANNEL_CACHE_DURATION

InFlight == {q \in Slots : req[q].pc \notin {"idle", "done"}}

\* The slot a new invocation takes: the lowest one not in use.
FreeSlot(r) ==
    /\ r \notin InFlight
    /\ \A q \in Slots : q < r => q \in InFlight
    /\ Cardinality(InFlight) < maxInFlight

\* ------------------------------------------------- extraction and documents
\* MAX_PROGRAMMES of the hobby extractProgrammes.
MAX_PROGRAMMES == 50

\* extractProgrammes(xml, channelId): one record per <programme> element; the
\* hobby variant stops after MAX_PROGRAMMES of them.
extractProgrammes(xml, channelId) ==
    LET n == IF variant = "hobby" THEN Min(Len(xml), MAX_PROGRAMMES) ELSE Len(xml)
    IN  [k \in 1..n |-> [channelId |-> channelId, title |-> xml[k], description |-> "",
                          tmdb |-> None]]

\* tmdb && tmdb.season && tmdb.episode
FullyEnriched(p) ==
    /\ p.tmdb # None
    /\ p.tmdb[1].season # 0
    /\ p.tmdb[1].episode # 0

\* The decimal digits, as characters.
DIGITS == <<"0", "1", "2", "3", "4", "5", "6", "7", "8", "9">>

\* String(n), n >= 0: the characters of the decimal numeral, as a template
\* literal or String() renders a non-negative integer.
RECURSIVE Decimal(_)
Decimal(n) ==
    IF n < 10 THEN <<DIGITS[n + 1]>>
    ELSE Decimal(n \div 10) \o <<DIGITS[(n % 10) + 1]>>

\* str.padStart(targetLength, fill) with a one-character fill.
RECURSIVE padStart(_, _, _)
padStart(str, targetLength, fill) ==
    IF Len(str) >= targetLength THEN str
    ELSE padStart(<<fill>> \o str, targetLength, fill)

\* The subtraction forgotten: season and episode are written as they are.
xmltvNs_OneIndexed(season, episode) ==
    Decimal(season) \o <<".">> \o Decimal(episode) \o <<".">>

\* `${tmdb.season - 1}.${tmdb.episode - 1}.`
xmltvNs(season, episode) ==
    Decimal(season - 1) \o <<".">> \o Decimal(episode - 1) \o <<".">>

\* `S${String(tmdb.season).padStart(2, '0')}E${String(tmdb.episode).padStart(2, '0')}`
onScreen(season, episode) ==
    <<"S">> \o padStart(Decimal(season), 2, "0")
    \o <<"E">> \o padStart(Decimal(episode), 2, "0")

\* buildProgramme(programme): the elements the programme is rendered with.
\* title and desc are the pieces of the element's text, in order; an empty
\* subTitle, desc, episodeNum or category and a FALSE icon or image stand for
\* an element that is not written.
buildProgramme(p) ==
    IF FullyEnriched(p)
    THEN LET tmdb == p.tmdb[1] IN
         [channel |-> p.channelId,
          title |-> IF tmdb.episodeName # "" THEN <<tmdb.showName, " - ", tmdb.episodeName>>
                    ELSE IF tmdb.showName # "" THEN <<tmdb.showName>>
                    ELSE <<p.title>>,
          subTitle |-> tmdb.episodeName,
          desc |-> IF tmdb.overview # ""
                   THEN <<"S">> \o Decimal(tmdb.season) \o <<"E">> \o Decimal(tmdb.episode)
                        \o <<": ", tmdb.overview>>
                   ELSE IF p.description # "" THEN <<p.description>>
                   ELSE <<>>,
          episodeNum |-> <<[system |-> "xmltv_ns", value |-> xmltvNs(tmdb.season, tmdb.episode)],
                           [system |-> "onscreen", value |-> onScreen(tmdb.season, tmdb.episode)]>>,
          icon |-> tmdb.episodeThumbnail,
          image |-> tmdb.seriesPoster,
          category |-> <<"series">> \o (IF tmdb.showId # 0 THEN <<"tmdb:tv">> ELSE <<>>)]
    ELSE [channel |-> p.channelId,
          title |-> <<p.title>>,
          subTitle |-> "",
          desc |-> IF p.description # "" THEN <<p.description>> ELSE <<>>,
          episodeNum |-> <<>>,
          icon |-> FALSE,
          image |-> p.tmdb # None /\ p.tmdb[1].seriesPoster,
          category |-> <<>>]

\* A channelId that is falsy in `prog.channelId && ...`: the empty string.
NO_CHANNEL_ID == -1

\* The channelsMap loop of convertToXMLTV: the keys of the Map in insertion
\* order; a record whose channelId is falsy adds none.
RECURSIVE DistinctChannels(_, _)
DistinctChannels(programmes, seen) ==
    IF programmes = <<>> THEN <<>>
    ELSE IF Head(programmes).channelId = NO_CHANNEL_ID
            \/ Head(programmes).channelId \in seen
         THEN DistinctChannels(Tail(programmes), seen)
         ELSE <<Head(programmes).channelId>>
              \o DistinctChannels(Tail(programmes), seen \cup {Head(programmes).channelId})

\* No Map: a channel element is written for every record.
convertToXMLTV_ChannelPerRecord(programmes) ==
    [channels |-> [k \in 1..Len(programmes) |-> programmes[k].channelId],
     programmes |-> [k \in 1..Len(programmes) |-> buildProgramme(programmes[k])],
     layout |-> [k \in 1..Len(programmes) |-> "channel"]
                \o [k \in 1..Len(programmes) |-> "programme"]]

\* convertToXMLTV(programmes, options): the document is appended to in two
\* loops, buildChannel for every key of channelsMap, then buildProgramme for
\* every record.  `layout` is the sequence of elements as they were appended.
convertToXMLTV(programmes) ==
    LET ids == DistinctChannels(programmes, {})
    IN  [channels |-> ids,
         programmes |-> [k \in 1..Len(programmes) |-> buildProgramme(programmes[k])],
         layout |-> [k \in 1..Len(ids) |-> "channel"]
                    \o [k \in 1..Len(programmes) |-> "programme"]]

\* getStatistics(programmes): total, distinct channels, enriched.
getStatistics(programmes) ==
    [total |-> Len(programmes),
     channels |-> Cardinality({programmes[k].channelId : k \in 1..Len(programmes)}
                              \ {NO_CHANNEL_ID}),
     enriched |-> Cardinality({k \in 1..Len(programmes) : FullyEnriched(programmes[k])})]

\* channel id of the synthetic channel of the hobby error document ("error").
ERROR_CHANNEL == 0

\* The errorXml of the hobby catch block: one channel, one programme.
errorXml ==
    [channels |-> <<ERROR_CHANNEL>>,
     programmes |-> <<[channel |-> ERROR_CHANNEL, title |-> <<"EPG Service Error">>,
                       subTitle |-> "", desc |-> <<"Error: ", "error.message">>,
                       episodeNum |-> <<>>, icon |-> FALSE, image |-> FALSE,
                       category |-> <<>>]>>,
     layout |-> <<"channel", "programme">>]

\* ------------------------------------------------------------- GET / : read
\* The two cache checks in the other order.
ReadPolicy_PartialFirst(now) ==
    IF PartialFresh(now) THEN "HIT-PARTIAL"
    ELSE IF FullFresh(now) THEN "HIT-FULL"
    ELSE "MISS"

\* The read policy at the top of the main endpoint: which tier answers.
ReadPolicy(now) ==
    IF FullFresh(now) THEN "HIT-FULL"
    ELSE IF PartialFresh(now) THEN "HIT-PARTIAL"
    ELSE "MISS"

\* X-Warning on a response served from the partial tier: the enhanced variant
\* sets 'Partial data - full refresh in progress', the hobby variant sets none.
HitPartialWarning == variant = "enhanced"

Arrive(r, t) ==
    /\ running = 0
    /\ FreeSlot(r)
    /\ budget > 0
    /\ t \in Arrivals
    /\ clock' = t
    /\ budget' = budget - 1
    /\ history' = [history EXCEPT !.quiet = FALSE]

Started(t) ==
    [IdleReq EXCEPT !.startTime = t, !.now = t,
                    !.tiersAtArrival = [full |-> fullCache, partial |-> partialCache],
                    !.afterRefresh = history.quiet]

\* GET / answered from the full tier.
ServeFull(r) ==
    \E t \in Arrivals :
        /\ Arrive(r, t)
        /\ ReadPolicy(t) = "HIT-FULL"
        /\ req' = [req EXCEPT ![r] =
                     [Started(t) EXCEPT
                        !.pc = "done",
                        !.response = [status |-> 200, xCache |-> "HIT-FULL", body |-> "xmltv",
                                      doc |-> fullCache.data, xWarning |-> FALSE]]]
        /\ UNCHANGED <<config, call, fetches, fullCache, partialCache, channelCache, running>>

\* GET / answered from the partial tier.
ServePartial(r) ==
    \E t \in Arrivals :
        /\ Arrive(r, t)
        /\ ReadPolicy(t) = "HIT-PARTIAL"
        /\ req' = [req EXCEPT ![r] =
                     [Started(t) EXCEPT
                        !.pc = "done",
                        !.response = [status |-> 200, xCache |-> "HIT-PARTIAL", body |-> "xmltv",
                                      doc |-> partialCache.data,
                                      xWarning |-> HitPartialWarning]]]
        /\ UNCHANGED <<config, call, fetches, fullCache, partialCache, channelCache, running>>

\* GET / with no fresh tier: the handler calls loadChannelsProgressively, which
\* filters the registry and reads Date.now() before its cache-drain loop.
StartRebuild(r) ==
    \E t \in Arrivals :
        /\ Arrive(r, t)
        /\ ReadPolicy(t) = "MISS"
        /\ req' = [req EXCEPT ![r] =
                     [Started(t) EXCEPT
                        !.pc = "drain",
                        !.loaderNow = t,
                        !.liveAtStart = {c \in SeqToSet(channelsToFetch) : ChannelCacheHit(c, t)},
                        !.priorOutput =
                            IF /\ history.lastOutput # None
                               /\ \A c \in history.lastOutput[1] :
                                    /\ channelCache[c].present
                                    /\ t - channelCache[c].timestamp < 60 * 60 * 1000
                            THEN history.lastOutput ELSE None]]
        /\ running' = r
        /\ UNCHANGED <<config, call, fetches, fullCache, partialCache, channelCache>>

\* -------------------------------------------------- loadChannelsProgressively
ResultIds(allResults) == {allResults[k].tvgId : k \in 1..Len(allResults)}

\* The filter forgotten: every registry channel is fetched, cached or not.
remainingChannels_All(allResults) == channelsToFetch

\* channelsToFetch.filter(([tvgId]) => !allResults.some(r => r.tvgId === tvgId))
remainingChannels(allResults) ==
    SelectSeq(channelsToFetch, LAMBDA c : c \notin ResultIds(allResults))

\* Position (0-based) of the first registry entry at or after `from` that the
\* cache-drain loop finds live in the channel cache; Len when there is none.
RECURSIVE NextHit(_, _)
NextHit(from, now) ==
    IF from >= Len(channelsToFetch) THEN Len(channelsToFetch)
    ELSE IF ChannelCacheHit(channelsToFetch[from + 1], now) THEN from
    ELSE NextHit(from + 1, now)

\* A read that renews the entry: the hit stamps it with the reader's `now`.
CacheAfterHit_Touch(cache, c, now) == [cache EXCEPT ![c].timestamp = now]

\* channelCache.get(tvgId) and the use of cached.xml: the Map is left as it is.
CacheAfterHit(cache, c, now) == cache

\* The cache-drain loop, up to and including its next cache hit.  A hit is
\* pushed, then Date.now() is read for the time guard, which ends the loop.
DrainStep(r) ==
    /\ running = r
    /\ req[r].pc = "drain"
    /\ LET k == NextHit(req[r].drainIdx, req[r].loaderNow) IN
       IF k >= Len(channelsToFetch)
       THEN /\ req' = [req EXCEPT ![r].pc = "chunk",
                                  ![r].remainingChannels = remainingChannels(req[r].allResults),
                                  ![r].i = 0]
            /\ UNCHANGED <<clock, channelCache>>
       ELSE \E t \in Later(r, {DrainMark}) :
              LET c == channelsToFetch[k + 1]
                  pushed == Append(req[r].allResults,
                                   [tvgId |-> c, xml |-> channelCache[c].xml, fromCache |-> TRUE])
              IN  /\ clock' = t
                  /\ channelCache' = CacheAfterHit(channelCache, c, req[r].loaderNow)
                  /\ IF DrainGuard(t - req[r].startTime, MAX_EXECUTION_TIME)
                     THEN req' = [req EXCEPT ![r].pc = "chunk",
                                             ![r].allResults = pushed,
                                             ![r].remainingChannels = remainingChannels(pushed),
                                             ![r].i = 0,
                                             ![r].drainCut = k + 1 < Len(channelsToFetch)]
                     ELSE req' = [req EXCEPT ![r].allResults = pushed,
                                             ![r].drainIdx = k + 1]
    /\ UNCHANGED <<config, call, fetches, history, fullCache, partialCache, running, budget>>

\* No batching: the rest of the chunk is fetched at once.
Batch_RestOfChunk(q, j) ==
    SubSeq(q.remainingChannels, q.i + j + 1,
           Min(q.i + CHANNELS_PER_CHUNK, Len(q.remainingChannels)))

\* remainingChannels.slice(i, i + CHANNELS_PER_CHUNK)
Chunk(q) == Slice(q.remainingChannels, q.i, q.i + CHANNELS_PER_CHUNK)

\* chunk.slice(j, j + BATCH_SIZE)
Batch(q, j) == Slice(Chunk(q), j, j + BATCH_SIZE)

\* What fetchChannelEPG resolves to when the fetch fails: null.
FetchFailed == [ok |-> FALSE, xml |-> <<>>]

\* Promise.all(batch.map(fetchChannelEPG)) is started at time t: one fetch per
\* channel of the batch is in flight (`pending` holds their positions), and
\* the slot gives up the thread until every one of them has settled.
IssueBatch(q, j, t) ==
    [q EXCEPT !.pc = "await", !.j = j, !.batch = Batch(q, j),
              !.results = [k \in 1..Len(Batch(q, j)) |-> FetchFailed],
              !.pending = 1..Len(Batch(q, j)),
              !.fetched = q.fetched \cup SeqToSet(Batch(q, j)),
              !.refetched = q.refetched \cup (q.fetched \cap SeqToSet(Batch(q, j))),
              !.batchStartedAt = t,
              !.batches = q.batches + 1]

\* Top of the chunk loop: the elapsed-time check, then the first batch.
ChunkCheck(r) ==
    /\ running = r
    /\ req[r].pc = "chunk"
    /\ IF req[r].i < Len(req[r].remainingChannels)
       THEN IF FetchGuard(clock - req[r].startTime, MAX_EXECUTION_TIME)
            THEN /\ req' = [req EXCEPT ![r].pc = "loaded"]
                 /\ UNCHANGED running
            ELSE /\ req' = [req EXCEPT ![r] = IssueBatch(req[r], 0, clock)]
                 /\ running' = 0
       ELSE /\ req' = [req EXCEPT ![r].pc = "loaded"]
            /\ UNCHANGED running
    /\ UNCHANGED <<config, call, fetches, history, clock, fullCache, partialCache, channelCache, budget>>

\* The per-batch check left out, as in the enhanced loader.
CheckAfterBatch_Never(elapsed) == FALSE

\* The check after each batch: only the hobby variant has one (lines 675-680).
CheckAfterBatch(elapsed) ==
    variant = "hobby" /\ FetchGuard(elapsed, MAX_EXECUTION_TIME)

\* One failed fetch loses the whole batch.
Collect_AllOrNothing(batch, results, k) ==
    IF \E n \in 1..Len(batch) : ~results[n].ok THEN <<>>
    ELSE [n \in 1..Len(batch) |->
            [tvgId |-> batch[n], xml |-> results[n].xml, fromCache |-> FALSE]]

\* The loop over the results ends at the first fetch that failed.
RECURSIVE Collect_UntilFailure(_, _, _)
Collect_UntilFailure(batch, results, k) ==
    IF k > Len(batch) \/ ~results[k].ok THEN <<>>
    ELSE <<[tvgId |-> batch[k], xml |-> results[k].xml, fromCache |-> FALSE]>>
         \o Collect_UntilFailure(batch, results, k + 1)

\* for (const result of results) if (result) { channelCache.set(...); allResults.push(result) }
RECURSIVE Collect(_, _, _)
Collect(batch, results, k) ==
    IF k > Len(batch) THEN <<>>
    ELSE IF results[k].ok
         THEN <<[tvgId |-> batch[k], xml |-> results[k].xml, fromCache |-> FALSE]>>
              \o Collect(batch, results, k + 1)
         ELSE Collect(batch, results, k + 1)

\* The cache write is left out.
CacheFetched_Nothing(cache, got, now) == cache

\* channelCache.set(result.tvgId, {xml: result.xml, timestamp: now})
CacheFetched(cache, got, now) ==
    [c \in TvgIds |->
        IF \E k \in 1..Len(got) : got[k].tvgId = c
        THEN [present |-> TRUE,
              xml |-> got[CHOOSE k \in 1..Len(got) : got[k].tvgId = c].xml,
              timestamp |-> now]
        ELSE cache[c]]

\* One fetch of the batch in flight settles: fetchChannelEPG resolves to
\* {tvgId, xml}, or to null when the response is not ok, is not a listings
\* document, or the fetch threw or was aborted by its timer.
FetchSettles(r) ==
    /\ running = 0
    /\ req[r].pc = "await"
    /\ \E k \in req[r].pending, result \in FetchResults :
         req' = [req EXCEPT ![r].results[k] = result,
                            ![r].pending = req[r].pending \ {k}]
    /\ UNCHANGED <<config, call, fetches, history, clock, fullCache, partialCache, channelCache,
                   running, budget>>

\* await Promise.all(...): fetchChannelEPG never rejects, so the promise
\* fulfils when every fetch of the batch has settled.
PromiseAll(q) == q.pending = {}

\* The increment forgotten: the loop stays at the batch it has just done.
NextBatchIndex_Stuck(j) == j

\* j += BATCH_SIZE
NextBatchIndex(j) == j + BATCH_SIZE

\* Every fetch of the batch in flight has settled (each to a payload or to
\* null): successes are cached and collected, then the loop goes on.
BatchDone(r) ==
    /\ running = 0
    /\ req[r].pc = "await"
    /\ PromiseAll(req[r])
    /\ \E t \in AfterFetch(r) :
         LET results == req[r].results
             got == Collect(req[r].batch, results, 1)
             q == [req[r] EXCEPT
                     !.allResults = req[r].allResults \o got,
                     !.failed = req[r].failed
                                \cup {req[r].batch[k] : k \in {n \in 1..Len(req[r].batch) :
                                                                 ~results[n].ok}}]
             nextJ == NextBatchIndex(q.j)
         IN  /\ clock' = t
             /\ channelCache' = CacheFetched(channelCache, got, q.loaderNow)
             /\ history' = [history EXCEPT !.fetchedAt =
                               [c \in TvgIds |-> IF c \in ResultIds(got)
                                                 THEN q.batchStartedAt
                                                 ELSE history.fetchedAt[c]]]
             /\ IF ~CheckAfterBatch(t - q.startTime) /\ nextJ < Len(Chunk(q))
                THEN /\ req' = [req EXCEPT ![r] = IssueBatch(q, nextJ, t)]
                     /\ UNCHANGED running
                ELSE /\ req' = [req EXCEPT ![r] =
                                  [q EXCEPT !.pc = "chunk", !.batch = <<>>, !.j = 0,
                                            !.results = <<>>, !.pending = {},
                                            !.i = q.i + CHANNELS_PER_CHUNK]]
                     /\ running' = r
    /\ UNCHANGED <<config, call, fetches, fullCache, partialCache, budget>>

\* ------------------------------------------------------ GET / : the rebuild
\* What the invocation keeps once it has answered: its response and the
\* record of what it did.
Answered(q, response) ==
    [IdleReq EXCEPT !.pc = "done", !.startTime = q.startTime, !.now = q.now,
                    !.tiersAtArrival = q.tiersAtArrival,
                    !.obtained = Len(q.allResults),
                    !.afterRefresh = q.afterRefresh,
                    !.response = response]

\* The catch block: status 500 and a text body (enhanced, lines 504-510);
\* status 200 and errorXml (hobby, lines 851-870).
ErrorResponse ==
    IF variant = "hobby"
    THEN [status |-> 200, xCache |-> "", body |-> "errorXml", doc |-> Some(errorXml),
          xWarning |-> FALSE]
    ELSE [status |-> 500, xCache |-> "", body |-> "text", doc |-> None, xWarning |-> FALSE]

\* if (channelResults.length === 0) throw new Error('No EPG data available')
ThrowNoChannels(r) ==
    /\ running = r
    /\ req[r].pc = "loaded"
    /\ Len(req[r].allResults) = 0
    /\ req' = [req EXCEPT ![r] = Answered(req[r], ErrorResponse)]
    /\ history' = [history EXCEPT !.lastOutput = Some(ResultIds(req[r].allResults))]
    /\ running' = 0
    /\ UNCHANGED <<config, call, fetches, clock, fullCache, partialCache, channelCache, budget>>

RECURSIVE ExtractFrom(_, _)
ExtractFrom(results, k) ==
    IF k > Len(results) THEN <<>>
    ELSE extractProgrammes(results[k].xml, results[k].tvgId) \o ExtractFrom(results, k + 1)

\* Enhanced: for (const result of channelResults) allProgrammes.push(...progs)
ExtractAll(r) ==
    /\ running = r
    /\ req[r].pc = "loaded"
    /\ Len(req[r].allResults) > 0
    /\ variant = "enhanced"
    /\ req' = [req EXCEPT ![r].pc = "extracted",
                          ![r].allProgrammes = ExtractFrom(req[r].allResults, 1)]
    /\ UNCHANGED <<config, call, fetches, history, clock, fullCache, partialCache, channelCache,
                   running, budget>>

\* Hobby: one iteration of the extraction loop, which reads Date.now() and
\* breaks once elapsed time exceeds 85% of MAX_EXECUTION_TIME.
ExtractStep(r) ==
    /\ running = r
    /\ variant = "hobby"
    /\ \/ req[r].pc = "loaded" /\ Len(req[r].allResults) > 0
       \/ req[r].pc = "extract"
    /\ \E t \in Later(r, {ExtractMark}) :
         LET k == req[r].extractIdx
             result == req[r].allResults[k + 1]
         IN  /\ clock' = t
             /\ IF ExtractGuard(t - req[r].startTime)
                THEN req' = [req EXCEPT ![r].pc = "extracted"]
                ELSE req' = [req EXCEPT
                               ![r].pc = IF k + 1 < Len(req[r].allResults)
                                         THEN "extract" ELSE "extracted",
                               ![r].extractIdx = k + 1,
                               ![r].allProgrammes =
                                   req[r].allProgrammes
                                   \o extractProgrammes(result.xml, result.tvgId)]
    /\ UNCHANGED <<config, call, fetches, history, fullCache, partialCache, channelCache, running, budget>>

\* The catch block stores what it answers in the partial tier.
ThrowNoProgrammes_CachesError(r) ==
    /\ running = r
    /\ req[r].pc = "extracted"
    /\ Len(req[r].allProgrammes) = 0
    /\ req' = [req EXCEPT ![r] = Answered(req[r], ErrorResponse)]
    /\ partialCache' = [data |-> ErrorResponse.doc, timestamp |-> clock,
                        channelCount |-> 0, programmeCount |-> 0]
    /\ history' = [history EXCEPT !.lastOutput = Some(ResultIds(req[r].allResults))]
    /\ running' = 0
    /\ UNCHANGED <<config, call, fetches, clock, fullCache, channelCache, budget>>

\* if (allProgrammes.length === 0) throw new Error('No programmes extracted')
ThrowNoProgrammes(r) ==
    /\ running = r
    /\ req[r].pc = "extracted"
    /\ Len(req[r].allProgrammes) = 0
    /\ req' = [req EXCEPT ![r] = Answered(req[r], ErrorResponse)]
    /\ history' = [history EXCEPT !.lastOutput = Some(ResultIds(req[r].allResults))]
    /\ running' = 0
    /\ UNCHANGED <<config, call, fetches, clock, fullCache, partialCache, channelCache, budget>>

\* A slip in the comparison: the gate is still open at exactly 70%.
EnrichmentGate_Inclusive(elapsed) ==
    /\ variant = "enhanced"
    /\ GROQ_API_KEY
    /\ elapsed * 10 <= MAX_EXECUTION_TIME * 7

\* GROQ_API_KEY && elapsed < MAX_EXECUTION_TIME * 0.7 (enhanced, line 411)
EnrichmentGate(elapsed) ==
    /\ variant = "enhanced"
    /\ GROQ_API_KEY
    /\ elapsed * 10 < MAX_EXECUTION_TIME * 7

\* The build time is never set.
BuiltTier_NoTimestamp(programmes, now) ==
    [data |-> Some(convertToXMLTV(programmes)),
     timestamp |-> 0,
     channelCount |-> getStatistics(programmes).channels,
     programmeCount |-> getStatistics(programmes).total]

\* The tier entry a rebuild writes: document, Date.now(), stats.
BuiltTier(programmes, now) ==
    [data |-> Some(convertToXMLTV(programmes)),
     timestamp |-> now,
     channelCount |-> getStatistics(programmes).channels,
     programmeCount |-> getStatistics(programmes).total]

\* The write policy: which tier the rebuild overwrites.
WriteFull(q) == isFullBuild(Len(q.allResults), totalValidChannels)

\* Only the records that were sent to the classifier are rendered.
ListToSerialize_Candidates(q) ==
    IF q.seriesToEnrich = <<>> THEN q.allProgrammes
    ELSE [k \in 1..Len(q.seriesToEnrich) |-> q.allProgrammes[q.seriesToEnrich[k]]]

\* convertToXMLTV(allProgrammes, ...): the list handed to the serializer is the
\* array the extractor filled; enrichment changed its records in place.
ListToSerialize(q) == q.allProgrammes

\* convertToXMLTV, the write policy and the 200 response with the document.
Finish(r) ==
    /\ running = r
    /\ \/ /\ req[r].pc = "extracted"
          /\ Len(req[r].allProgrammes) > 0
          /\ ~EnrichmentGate(clock - req[r].startTime)
       \/ req[r].pc = "convert"
    /\ LET q == req[r]
           tier == BuiltTier(ListToSerialize(q), clock)
       IN  /\ IF WriteFull(q)
              THEN /\ fullCache' = tier /\ UNCHANGED partialCache
                   /\ history' = [history EXCEPT !.old.full = q.preRefresh,
                                                 !.lastOutput = Some(ResultIds(q.allResults))]
              ELSE /\ partialCache' = tier /\ UNCHANGED fullCache
                   /\ history' = [history EXCEPT !.old.partial = q.preRefresh,
                                                 !.lastOutput = Some(ResultIds(q.allResults))]
           /\ req' = [req EXCEPT ![r] =
                        Answered(q, [status |-> 200,
                                     xCache |-> IF WriteFull(q) THEN "MISS-FULL"
                                                                ELSE "MISS-PARTIAL",
                                     body |-> "xmltv",
                                     doc |-> tier.data,
                                     xWarning |-> ~WriteFull(q)])]
    /\ running' = 0
    /\ UNCHANGED <<config, call, fetches, clock, channelCache, budget>>

\* ------------------------------------------------- enrichment (enhanced only)
\* AI_BATCH_SIZE is 30 in the source; the model keeps batches shorter than the
\* list of candidates so that more than one classifier call happens.
AI_BATCH_SIZE == 2
\* .slice(0, 100): at most 100 candidates are sent to the classifier.
ENRICH_LIMIT == 100

\* Titles the pre-filter drops: they contain 'news', 'cnn', 'msnbc', 'sport',
\* 'nfl' or 'nba' once lower-cased.
NewsOrSports == {"NBC Nightly News", "NFL Football"}

\* What the classifier may answer for one listing; season or episode 0 stands
\* for null (both are falsy in `aiResult.season && aiResult.episode`).
AiEntries ==
    {[isSeries |-> FALSE, season |-> 0, episode |-> 0],
     [isSeries |-> TRUE, season |-> 0, episode |-> 0],
     [isSeries |-> TRUE, season |-> 1, episode |-> 1]}

\* What analyzeWithAI(batch) may resolve to: [] on any failure, else the array
\* the classifier sent, whose length the code does not check.
AiArrays(n) == UNION {[1..m -> AiEntries] : m \in 0..n}

\* Positions in allProgrammes of the records that pass the pre-filter.
RECURSIVE Candidates(_, _)
Candidates(programmes, k) ==
    IF k > Len(programmes) THEN <<>>
    ELSE IF programmes[k].title \in NewsOrSports
         THEN Candidates(programmes, k + 1)
         ELSE <<k>> \o Candidates(programmes, k + 1)

\* enrichWithTMDB(programme, aiResult): searchOk says the show search answered
\* with a match, episodeOk that the episode lookup answered ok.
enrichWithTMDB(programme, aiResult, searchOk, episodeOk) ==
    IF ~aiResult.isSeries \/ ~searchOk THEN programme
    ELSE LET show == [showId |-> 1, showName |-> "Show", seriesPoster |-> TRUE,
                      season |-> 0, episode |-> 0, episodeName |-> "",
                      overview |-> "", episodeThumbnail |-> FALSE]
         IN  IF aiResult.season # 0 /\ aiResult.episode # 0 /\ episodeOk
             THEN [programme EXCEPT !.tmdb =
                     Some([show EXCEPT !.season = aiResult.season,
                                       !.episode = aiResult.episode,
                                       !.episodeName = "Pilot"])]
             ELSE [programme EXCEPT !.tmdb = Some(show)]

\* The gate is open: the candidates are selected.
StartEnrichment(r) ==
    /\ running = r
    /\ req[r].pc = "extracted"
    /\ Len(req[r].allProgrammes) > 0
    /\ EnrichmentGate(clock - req[r].startTime)
    /\ LET cand == Slice(Candidates(req[r].allProgrammes, 1), 0, ENRICH_LIMIT)
       IN  req' = [req EXCEPT ![r].pc = IF Len(cand) > 0 THEN "aiBatch" ELSE "convert",
                              ![r].seriesToEnrich = cand,
                              ![r].aiIdx = 0]
    /\ UNCHANGED <<config, call, fetches, history, clock, fullCache, partialCache, channelCache,
                   running, budget>>

\* seriesToEnrich.slice(i, i + AI_BATCH_SIZE)
AiBatch(q) == Slice(q.seriesToEnrich, q.aiIdx, q.aiIdx + AI_BATCH_SIZE)

\* The classifier loop never looks at the clock.
AiTimeLimit_Unchecked(elapsed) == FALSE

\* if (Date.now() - startTime > MAX_EXECUTION_TIME * 0.8) break
AiTimeLimit(elapsed) == elapsed * 10 > MAX_EXECUTION_TIME * 8

\* Top of the classifier loop: the time check, then analyzeWithAI(batch).
AiBatchCheck(r) ==
    /\ running = r
    /\ req[r].pc = "aiBatch"
    /\ IF /\ req[r].aiIdx < Len(req[r].seriesToEnrich)
          /\ ~AiTimeLimit(clock - req[r].startTime)
       THEN /\ req' = [req EXCEPT ![r].pc = "aiAwait"]
            /\ running' = 0
       ELSE /\ req' = [req EXCEPT ![r].pc = "convert"]
            /\ UNCHANGED running
    /\ UNCHANGED <<config, call, fetches, history, clock, fullCache, partialCache, channelCache, budget>>

\* analyzeWithAI has resolved.
AiDone(r) ==
    /\ running = 0
    /\ req[r].pc = "aiAwait"
    /\ \E results \in AiArrays(Len(AiBatch(req[r]))), t \in Later(r, EnrichMarks) :
         /\ clock' = t
         /\ req' = [req EXCEPT ![r].pc = "tmdb", ![r].aiResults = results, ![r].aiJ = 0]
    /\ running' = r
    /\ UNCHANGED <<config, call, fetches, history, fullCache, partialCache, channelCache, budget>>

\* One iteration of the merge loop: for (j = 0; j < batch.length && j < aiResults.length; j++)
TmdbStep(r) ==
    /\ running = r
    /\ req[r].pc = "tmdb"
    /\ LET q == req[r]
           j == q.aiJ
       IN  IF j < Len(AiBatch(q)) /\ j < Len(q.aiResults)
           THEN \E searchOk \in BOOLEAN, episodeOk \in BOOLEAN :
                  LET k == AiBatch(q)[j + 1]
                  IN  req' = [req EXCEPT
                                ![r].aiJ = j + 1,
                                ![r].allProgrammes[k] =
                                    enrichWithTMDB(q.allProgrammes[k], q.aiResults[j + 1],
                                                   searchOk, episodeOk)]
           ELSE req' = [req EXCEPT ![r].pc = "aiBatch", ![r].aiResults = <<>>, ![r].aiJ = 0,
                                   ![r].aiIdx = q.aiIdx + AI_BATCH_SIZE]
    /\ UNCHANGED <<config, call, fetches, history, clock, fullCache, partialCache, channelCache,
                   running, budget>>

\* --------------------------------------------------------- other endpoints
\* The channel cache is forgotten: /refresh clears the two tiers only.
Refresh_KeepsChannelCache ==
    /\ running = 0
    /\ fullCache' = [fullCache EXCEPT !.data = None, !.timestamp = 0]
    /\ partialCache' = [partialCache EXCEPT !.data = None, !.timestamp = 0]
    /\ req' = [r \in Slots |->
                 IF r \in InFlight /\ Len(req[r].allResults) > 0
                 THEN [req[r] EXCEPT !.preRefresh = TRUE] ELSE req[r]]
    /\ history' = [history EXCEPT !.quiet = (InFlight = {}), !.refreshAnswer = 200,
                                  !.old = [full |-> FALSE, partial |-> FALSE],
                                  !.lastOutput = None]
    /\ UNCHANGED <<config, call, fetches, clock, channelCache, running, budget>>

\* GET /refresh: both tiers lose document and build time, the channel cache
\* is emptied.  The counts of the tiers are not reset.
Refresh ==
    /\ running = 0
    /\ fullCache' = [fullCache EXCEPT !.data = None, !.timestamp = 0]
    /\ partialCache' = [partialCache EXCEPT !.data = None, !.timestamp = 0]
    /\ channelCache' = [c \in TvgIds |-> NoEntry]
    /\ req' = [r \in Slots |->
                 IF r \in InFlight /\ Len(req[r].allResults) > 0
                 THEN [req[r] EXCEPT !.preRefresh = TRUE] ELSE req[r]]
    /\ history' = [quiet |-> InFlight = {}, refreshAnswer |-> 200,
                   old |-> [full |-> FALSE, partial |-> FALSE],
                   fetchedAt |-> [c \in TvgIds |-> 0],
                   lastOutput |-> None]
    /\ UNCHANGED <<config, call, fetches, clock, running, budget>>

\* GET /refresh-partial (enhanced only).
RefreshPartial ==
    /\ running = 0
    /\ variant = "enhanced"
    /\ partialCache' = [partialCache EXCEPT !.data = None, !.timestamp = 0]
    /\ history' = [history EXCEPT !.old.partial = FALSE]
    /\ UNCHANGED <<config, call, fetches, clock, fullCache, channelCache, req, running, budget>>

\* ------------------------------------------------------------ specification
Rebuild(r) ==
    \/ DrainStep(r)
    \/ ChunkCheck(r)
    \/ FetchSettles(r)
    \/ BatchDone(r)
    \/ ThrowNoChannels(r)
    \/ ExtractAll(r)
    \/ ExtractStep(r)
    \/ ThrowNoProgrammes(r)
    \/ Finish(r)

\* GET / in all its courses.
Listings ==
    \/ \E r \in Slots : ServeFull(r)
    \/ \E r \in Slots : ServePartial(r)
    \/ \E r \in Slots : StartRebuild(r)
    \/ \E r \in Slots : Rebuild(r)

Next ==
    \/ Listings
    \/ Refresh
    \/ RefreshPartial

Spec == Init /\ [][Next]_vars

\* The enhanced variant deployed with a classifier key, followed through one
\* rebuild from cold caches.
InitEnrich ==
    /\ InitCommon
    /\ variant = "enhanced"
    /\ GROQ_API_KEY = TRUE
    /\ maxInFlight = 1
    /\ budget = 1

NextEnrich ==
    \/ \E r \in Slots : StartRebuild(r)
    \/ \E r \in Slots : DrainStep(r)
    \/ \E r \in Slots : ChunkCheck(r)
    \/ \E r \in Slots : FetchSettles(r)
    \/ \E r \in Slots : BatchDone(r)
    \/ \E r \in Slots : ThrowNoChannels(r)
    \/ \E r \in Slots : ExtractAll(r)
    \/ \E r \in Slots : ThrowNoProgrammes(r)
    \/ \E r \in Slots : StartEnrichment(r)
    \/ \E r \in Slots : AiBatchCheck(r)
    \/ \E r \in Slots : AiDone(r)
    \/ \E r \in Slots : TmdbStep(r)
    \/ \E r \in Slots : Finish(r)

\* Two invocations of GET / may overlap (each yields the thread at its awaits)
\* and a third request follows; the registry has one key without an upstream
\* id, and the caches are cleared by no one.
InitOverlap ==
    /\ InitCommon
    /\ GROQ_API_KEY = FALSE
    /\ maxInFlight = 2
    /\ CHANNEL_MAP[1] = NULL
    /\ CHANNEL_MAP[2] = "epg"
    /\ budget = MaxRequests + 1

SpecOverlap == InitOverlap /\ [][Listings]_vars

SpecEnrich == InitEnrich /\ [][NextEnrich]_vars

\* One invocation of GET / at a time, three of them in a row; the registry
\* has one key without an upstream id, and the caches are cleared by no one.
InitSerial ==
    /\ InitCommon
    /\ GROQ_API_KEY = FALSE
    /\ maxInFlight = 1
    /\ CHANNEL_MAP[1] = NULL
    /\ CHANNEL_MAP[2] = "epg"
    /\ budget = MaxRequests + 1

SpecSerial == InitSerial /\ [][Listings]_vars

\* The hobby variant, one invocation of GET / at a time.
InitHobby ==
    /\ InitCommon
    /\ variant = "hobby"
    /\ GROQ_API_KEY = FALSE
    /\ maxInFlight = 1
    /\ budget = MaxRequests

NextHobby ==
    \/ \E r \in Slots : ServeFull(r)
    \/ \E r \in Slots : ServePartial(r)
    \/ \E r \in Slots : StartRebuild(r)
    \/ \E r \in Slots : DrainStep(r)
    \/ \E r \in Slots : ChunkCheck(r)
    \/ \E r \in Slots : FetchSettles(r)
    \/ \E r \in Slots : BatchDone(r)
    \/ \E r \in Slots : ThrowNoChannels(r)
    \/ \E r \in Slots : ExtractStep(r)
    \/ \E r \in Slots : ThrowNoProgrammes(r)
    \/ \E r \in Slots : Finish(r)

\* Every fetch in flight settles in the end (it resolves, fails, or is aborted
\* by its timer), and the event loop runs a continuation that is ready.
Scheduling ==
    \A r \in Slots : WF_vars(FetchSettles(r)) /\ WF_vars(Rebuild(r))

SpecHobbyLive == InitHobby /\ [][NextHobby]_vars /\ Scheduling

\* ------------------------------------------- fetchChannelEPG, step by step
\* FETCH_TIMEOUT: 4000 ms in the hobby variant; the enhanced variant has the
\* literal 6000.
FETCH_TIMEOUT == IF variant = "hobby" THEN 4000 ELSE 6000

\* Elapsed times at which something may happen to a fetch: before its timer
\* is due, when it is due, after it, and past the whole budget.
FetchInstants == {1000, FETCH_TIMEOUT, FETCH_TIMEOUT + 1000, MAX_EXECUTION_TIME + 1}

\* fetchChannelEPG has been called: the timer is set and `await fetch(...)`
\* is pending.  phase is "fetch" (awaiting the response), "text" (awaiting
\* response.text()) or "settled"; timer says the timeout is set and has
\* neither fired nor been cleared; ok says the call resolved to {tvgId, xml}.
NewFetch(t) ==
    [phase |-> "fetch", startedAt |-> t, timer |-> TRUE, ok |-> FALSE,
     aborted |-> FALSE, settledAt |-> 0]

\* batch.map(fetchChannelEPG): the calls of a batch have just been started.
InitFetch ==
    /\ variant \in {"enhanced", "hobby"}
    /\ GROQ_API_KEY = FALSE
    /\ CHANNEL_MAP = [c \in TvgIds |-> "epg"]
    /\ clock = 1
    /\ fullCache = EmptyTier
    /\ partialCache = EmptyTier
    /\ channelCache = [c \in TvgIds |-> NoEntry]
    /\ req = [r \in Slots |-> IdleReq]
    /\ running = 0
    /\ maxInFlight = 1
    /\ budget = 0
    /\ history = NoHistory
    /\ call = NoCall
    /\ fetches = [k \in 1..MaxFetches |-> NewFetch(clock)]

\* Time passes.  A timer that is due runs before the clock moves past it.
TimePasses ==
    /\ \E m \in FetchInstants :
         /\ 1 + m > clock
         /\ \A k \in 1..Len(fetches) :
              fetches[k].timer => 1 + m <= fetches[k].startedAt + FETCH_TIMEOUT
         /\ clock' = 1 + m
    /\ UNCHANGED <<config, call, fetches, fullCache, partialCache, channelCache, req,
                   running, budget, history>>

\* `await fetch(url, {signal})` settles.  With a response, clearTimeout runs
\* and a response that is not ok makes the call return null; a fetch that
\* rejects of itself goes to the catch block, and the timer stays set.
ResponseArrives(k) ==
    /\ fetches[k].phase = "fetch"
    /\ \E outcome \in {"ok", "not ok", "rejects"} :
         fetches' = [fetches EXCEPT ![k] =
            IF outcome = "ok" THEN [@ EXCEPT !.phase = "text", !.timer = FALSE]
            ELSE IF outcome = "not ok"
                 THEN [@ EXCEPT !.phase = "settled", !.timer = FALSE, !.settledAt = clock]
                 ELSE [@ EXCEPT !.phase = "settled", !.settledAt = clock]]
    /\ UNCHANGED <<config, call, clock, fullCache, partialCache, channelCache, req,
                   running, budget, history>>

\* `await response.text()` settles: the payload is a listings document, or
\* lacks '<tv', or the read throws.
BodyRead(k) ==
    /\ fetches[k].phase = "text"
    /\ \E outcome \in {"xmltv", "other", "throws"} :
         fetches' = [fetches EXCEPT ![k] =
            [@ EXCEPT !.phase = "settled", !.ok = (outcome = "xmltv"), !.settledAt = clock]]
    /\ UNCHANGED <<config, call, clock, fullCache, partialCache, channelCache, req,
                   running, budget, history>>

\* setTimeout(() => controller.abort(), FETCH_TIMEOUT) runs its callback: a
\* fetch still awaiting its response rejects, and the call returns null.
TimerFires(k) ==
    /\ fetches[k].timer
    /\ clock - fetches[k].startedAt >= FETCH_TIMEOUT
    /\ fetches' = [fetches EXCEPT ![k] =
          IF @.phase = "fetch"
          THEN [@ EXCEPT !.phase = "settled", !.timer = FALSE, !.aborted = TRUE,
                         !.settledAt = clock]
          ELSE [@ EXCEPT !.timer = FALSE]]
    /\ UNCHANGED <<config, call, clock, fullCache, partialCache, channelCache, req,
                   running, budget, history>>

NextFetch ==
    \/ TimePasses
    \/ \E k \in 1..MaxFetches : ResponseArrives(k)
    \/ \E k \in 1..MaxFetches : BodyRead(k)
    \/ \E k \in 1..MaxFetches : TimerFires(k)

SpecFetch == InitFetch /\ [][NextFetch]_vars

\* ------------------------------------ library functions called on their own
\* A payload with n programme elements, titles alternating.
LongPayload(n) == [k \in 1..n |-> IF k % 2 = 1 THEN "Show" ELSE "NFL Football"]

\* extractProgrammes called on payloads of up to two elements more than
\* MAX_PROGRAMMES, for every channel id.
ExtractCalls ==
    {[fn |-> "extractProgrammes", args |-> <<LongPayload(n), c>>, result |-> None] :
        n \in 0..(MAX_PROGRAMMES + 2), c \in TvgIds}

\* extractProgrammes(xml, channelId) returns.
ReturnExtract ==
    /\ call.fn = "extractProgrammes"
    /\ call.result = None
    /\ call' = [call EXCEPT !.result = Some(extractProgrammes(call.args[1], call.args[2]))]
    /\ UNCHANGED <<config, clock, fullCache, partialCache, channelCache, req, running,
                   budget, history, fetches>>

\* Records as the extractor makes them, with or without a channelId.
PlainRecords ==
    {[channelId |-> c, title |-> "Show", description |-> "", tmdb |-> None] :
        c \in TvgIds \cup {NO_CHANNEL_ID}}

\* convertToXMLTV called on every list of up to MaxRecords records.
ConvertCalls ==
    {[fn |-> "convertToXMLTV", args |-> <<ps>>, result |-> None] :
        ps \in UNION {[1..n -> PlainRecords] : n \in 0..MaxRecords}}

\* convertToXMLTV(programmes, options) returns.
ReturnConvert ==
    /\ call.fn = "convertToXMLTV"
    /\ call.result = None
    /\ call' = [call EXCEPT !.result = Some(convertToXMLTV(call.args[1]))]
    /\ UNCHANGED <<config, clock, fullCache, partialCache, channelCache, req, running,
                   budget, history, fetches>>

\* Season and episode numbers: none (0), one digit, two digits, three digits.
EpisodeNumbers == 0..MaxEpisode \cup {100}

\* The tmdb objects a record may carry: the show with or without artwork, and
\* whatever of season, episode, episode name, overview and still is there.
TmdbObjects ==
    [showId : {1}, showName : {"Show"}, seriesPoster : BOOLEAN,
     season : EpisodeNumbers, episode : EpisodeNumbers, episodeName : {"", "Pilot"},
     overview : {"", "Plot"}, episodeThumbnail : BOOLEAN]

\* buildProgramme called on records with and without a tmdb object.
BuildCalls ==
    {[fn |-> "buildProgramme", args |-> <<p>>, result |-> None] :
        p \in [channelId : {1}, title : {"Listing"}, description : {"", "Desc"},
               tmdb : {None} \cup {Some(t) : t \in TmdbObjects}]}

\* buildProgramme(programme) returns.
ReturnBuild ==
    /\ call.fn = "buildProgramme"
    /\ call.result = None
    /\ call' = [call EXCEPT !.result = Some(buildProgramme(call.args[1]))]
    /\ UNCHANGED <<config, clock, fullCache, partialCache, channelCache, req, running,
                   budget, history, fetches>>

\* ---- the listings converters of the proxies: convertMultipleToXMLTV
\* Days from 1970-01-01 to the civil date y-m-d, as Date.UTC counts them.
DaysFromCivil(y, m, d) ==
    LET yy == IF m <= 2 THEN y - 1 ELSE y
        era == yy \div 400
        yoe == yy - era * 400
        doy == (153 * (IF m > 2 THEN m - 3 ELSE m + 9) + 2) \div 5 + d - 1
        doe == yoe * 365 + yoe \div 4 - yoe \div 100 + doy
    IN  era * 146097 + doe - 719468

\* The civil date of a day number: what getUTCFullYear, getUTCMonth() + 1 and
\* getUTCDate read.
CivilFromDays(z) ==
    LET zz == z + 719468
        era == zz \div 146097
        doe == zz - era * 146097
        yoe == (doe - doe \div 1460 + doe \div 36524 - doe \div 146096) \div 365
        doy == doe - (365 * yoe + yoe \div 4 - yoe \div 100)
        mp == (5 * doy + 2) \div 153
        m == IF mp < 10 THEN mp + 3 ELSE mp - 9
    IN  [Y |-> yoe + era * 400 + (IF m <= 2 THEN 1 ELSE 0),
         M |-> m,
         D |-> doy - (153 * mp + 2) \div 5 + 1]

\* A field of a date string read as a number, digit by digit from the left.
RECURSIVE ReadNumber(_, _)
ReadNumber(str, acc) ==
    IF str = <<>> THEN acc
    ELSE ReadNumber(Tail(str),
                    acc * 10 + (CHOOSE d \in 0..9 : DIGITS[d + 1] = Head(str)))

\* A Date is kept as its time value in seconds (getTime() / 1000): the
\* instants followed have no milliseconds.
\* new Date(str) for 'YYYY-MM-DDTHH:MM:SS' with or without a trailing 'Z'; a
\* string without zone is read as local time, and the process runs in UTC.
ParseDate(str) ==
    DaysFromCivil(ReadNumber(SubSeq(str, 1, 4), 0), ReadNumber(SubSeq(str, 6, 7), 0),
                  ReadNumber(SubSeq(str, 9, 10), 0)) * 86400
    + ReadNumber(SubSeq(str, 12, 13), 0) * 3600
    + ReadNumber(SubSeq(str, 15, 16), 0) * 60
    + ReadNumber(SubSeq(str, 18, 19), 0)

\* const pad = (n) => String(n).padStart(2, '0')
pad(n) == padStart(Decimal(n), 2, "0")

\* formatDate(date): the UTC getters, padded, then ' +0000'.
formatDate(date) ==
    LET civil == CivilFromDays(date \div 86400)
        secs == date % 86400
    IN  Decimal(civil.Y) \o pad(civil.M) \o pad(civil.D)
        \o pad(secs \div 3600) \o pad((secs % 3600) \div 60) \o pad(secs % 60)
        \o <<" ", "+", "0", "0", "0", "0">>

\* convertMultipleToXMLTV of src/tvpass-proxy/utils/convert.js: start and stop
\* of one item, both through formatDate.
TimesProxy(item) ==
    LET start == ParseDate(item.listdatetime)
        stop == start + item.duration * 60
    IN  [start |-> formatDate(start), stop |-> formatDate(stop)]

\* convertMultipleToXMLTV of the other copy (part_004): start is the input
\* string without the characters - : T . followed by ' +0000'; stop goes
\* through Date, with `item['data-duration'] || 60` minutes.
TimesStripped(item) ==
    LET start == SelectSeq(item.listdatetime, LAMBDA c : c \notin {"-", ":", "T", "."})
                 \o <<" ", "+", "0", "0", "0", "0">>
        durationMinutes == IF item.duration = 0 THEN 60 ELSE item.duration
        stopDate == ParseDate(item.listdatetime) + durationMinutes * 60
    IN  [start |-> start, stop |-> formatDate(stopDate)]

\* The start instants followed, as civil UTC date and time: the spec's
\* example, the last half hour of a year, the last second of 28 February of
\* a leap year, and one with single-digit fields.
StartInstants ==
    {[Y |-> 2026, M |-> 1, D |-> 29, h |-> 0, m |-> 0, s |-> 0],
     [Y |-> 2026, M |-> 12, D |-> 31, h |-> 23, m |-> 30, s |-> 0],
     [Y |-> 2024, M |-> 2, D |-> 28, h |-> 23, m |-> 59, s |-> 59],
     [Y |-> 2026, M |-> 3, D |-> 5, h |-> 9, m |-> 5, s |-> 7]}

\* Durations in minutes.
Durations == {0, 1, 30, 60, 1440}

\* item['data-listdatetime'] for an instant: ISO 8601 date and time, with a
\* trailing 'Z' or without zone.
IsoString(t, zone) ==
    padStart(Decimal(t.Y), 4, "0") \o <<"-">> \o pad(t.M) \o <<"-">> \o pad(t.D) \o <<"T">>
    \o pad(t.h) \o <<":">> \o pad(t.m) \o <<":">> \o pad(t.s) \o zone

\* One schedule item handed to either copy of convertMultipleToXMLTV.
TimesCalls ==
    {[fn |-> "convertMultipleToXMLTV",
      args |-> <<file, [listdatetime |-> IsoString(t, zone), duration |-> d], t>>,
      result |-> None] :
        file \in {"tvpass-proxy", "part_004"}, t \in StartInstants,
        zone \in {<<>>, <<"Z">>}, d \in Durations}

\* convertMultipleToXMLTV has rendered the item's programme element.
ReturnTimes ==
    /\ call.fn = "convertMultipleToXMLTV"
    /\ call.result = None
    /\ call' = [call EXCEPT !.result =
                   Some(IF call.args[1] = "tvpass-proxy" THEN TimesProxy(call.args[2])
                                                         ELSE TimesStripped(call.args[2]))]
    /\ UNCHANGED <<config, clock, fullCache, partialCache, channelCache, req, running,
                   budget, history, fetches>>

\* The module is loaded and a library function is called with given arguments.
InitCalls ==
    /\ variant \in {"enhanced", "hobby"}
    /\ GROQ_API_KEY = FALSE
    /\ CHANNEL_MAP = [c \in TvgIds |-> "epg"]
    /\ clock = 1
    /\ fullCache = EmptyTier
    /\ partialCache = EmptyTier
    /\ channelCache = [c \in TvgIds |-> NoEntry]
    /\ req = [r \in Slots |-> IdleReq]
    /\ running = 0
    /\ maxInFlight = 1
    /\ budget = 0
    /\ history = NoHistory
    /\ fetches = <<>>
    /\ \/ call \in ExtractCalls
       \/ call \in ConvertCalls
       \/ call \in BuildCalls
       \/ call \in TimesCalls

NextCalls ==
    \/ ReturnExtract
    \/ ReturnConvert
    \/ ReturnBuild
    \/ ReturnTimes

SpecCalls == InitCalls /\ [][NextCalls]_vars

\* One rebuild from cold caches in every deployment: the hobby variant, whose
\* key is the constant null, and the enhanced variant with and without a key.
InitGate ==
    /\ InitCommon
    /\ GROQ_API_KEY \in BOOLEAN
    /\ GROQ_API_KEY => variant = "enhanced"
    /\ maxInFlight = 1
    /\ budget = 1

NextGate ==
    \/ NextEnrich
    \/ \E r \in Slots : ExtractStep(r)

SpecGate == InitGate /\ [][NextGate]_vars

\* ------------------------------------------------------------------ claims
\* The registry's count of channels with an upstream id, counted directly.
ValidCount == Cardinality({c \in TvgIds : CHANNEL_MAP[c] # NULL /\ CHANNEL_MAP[c] # EMPTY})

\* channelsObtained >= threshold * ValidCount, threshold 0.9 (enhanced) or 0.85 (hobby).
Covered(obtained) ==
    IF variant = "hobby" THEN obtained * 100 >= 85 * ValidCount
                         ELSE obtained * 10 >= 9 * ValidCount

\* A tier is Fresh at `now`: it holds a document built less than ttl ago.
Fresh(tier, ttl, now) == tier.data # None /\ now - tier.timestamp < ttl

FullTTL == 30 * 60 * 1000
PartialTTL == IF variant = "hobby" THEN 3 * 60 * 1000 ELSE 5 * 60 * 1000

Rebuilt(q) == q.pc = "done" /\ q.response.xCache \notin {"HIT-FULL", "HIT-PARTIAL"}

\* C1: a rebuild that reaches the cache-write step writes exactly one tier. At
\* or above the coverage threshold it overwrites the full tier with the
\* document it answers with and leaves the partial tier as it was; below the
\* threshold it overwrites the partial tier and leaves the full tier as it was.
C1_WritePolicy ==
    [][\A r \in Slots :
         (/\ req[r].pc # "done"
          /\ req'[r].pc = "done"
          /\ req'[r].response.xCache \in {"MISS-FULL", "MISS-PARTIAL"})
         => IF Covered(Len(req[r].allResults))
            THEN /\ req'[r].response.xCache = "MISS-FULL"
                 /\ fullCache'.data = req'[r].response.doc
                 /\ fullCache'.timestamp = clock'
                 /\ partialCache' = partialCache
            ELSE /\ req'[r].response.xCache = "MISS-PARTIAL"
                 /\ partialCache'.data = req'[r].response.doc
                 /\ partialCache'.timestamp = clock'
                 /\ fullCache' = fullCache]_vars

\* A below-threshold rebuild has answered while the full tier held a document,
\* and the full tier is what it was when the request arrived.
C1_Witness ==
    \E r \in Slots :
        /\ req[r].pc = "done"
        /\ req[r].response.xCache = "MISS-PARTIAL"
        /\ ~Covered(req[r].obtained)
        /\ req[r].tiersAtArrival.full.data # None
        /\ fullCache = req[r].tiersAtArrival.full

\* C2: a GET / that arrives when the full tier is Fresh is answered with the
\* full tier's document, whatever the partial tier holds; the partial tier
\* answers only when the full tier is not Fresh and the partial tier is; a
\* rebuild is started only when neither tier is Fresh.
C2_ReadPrecedence ==
    \A r \in Slots :
        req[r].pc # "idle" =>
            LET q == req[r]
                fullFresh == Fresh(q.tiersAtArrival.full, FullTTL, q.now)
                partialFresh == Fresh(q.tiersAtArrival.partial, PartialTTL, q.now)
                hit == IF q.pc = "done" THEN q.response.xCache ELSE ""
            IN  /\ fullFresh => (hit = "HIT-FULL" /\ q.response.doc = q.tiersAtArrival.full.data)
                /\ hit = "HIT-FULL" => fullFresh
                /\ hit = "HIT-PARTIAL" =>
                     (~fullFresh /\ partialFresh
                      /\ q.response.doc = q.tiersAtArrival.partial.data)
                /\ hit \notin {"HIT-FULL", "HIT-PARTIAL"} => (~fullFresh /\ ~partialFresh)

\* The full tier answered a request at whose arrival the partial tier was Fresh
\* too, and more recently built than the full tier.
C2_Witness ==
    \E r \in Slots :
        /\ req[r].pc = "done"
        /\ req[r].response.xCache = "HIT-FULL"
        /\ Fresh(req[r].tiersAtArrival.partial, PartialTTL, req[r].now)
        /\ req[r].tiersAtArrival.partial.timestamp > req[r].tiersAtArrival.full.timestamp

\* C3: a response taken from a tier is taken from a tier that holds a document
\* built strictly less than the tier's TTL before the request arrived.
C3_OnlyFreshServed ==
    \A r \in Slots :
        req[r].pc = "done" =>
            LET q == req[r] IN
            /\ q.response.xCache = "HIT-FULL" =>
                 /\ q.tiersAtArrival.full.data # None
                 /\ q.now - q.tiersAtArrival.full.timestamp < 30 * 60 * 1000
            /\ q.response.xCache = "HIT-PARTIAL" =>
                 /\ q.tiersAtArrival.partial.data # None
                 /\ q.now - q.tiersAtArrival.partial.timestamp
                      < (IF variant = "hobby" THEN 3 * 60 * 1000 ELSE 5 * 60 * 1000)

\* The partial tier has answered a request with the document it held.
C3_Witness ==
    \E r \in Slots :
        /\ req[r].pc = "done"
        /\ req[r].response.xCache = "HIT-PARTIAL"
        /\ req[r].response.doc = req[r].tiersAtArrival.partial.data
        /\ req[r].response.doc # None

\* C4: a channel whose channel-cache entry is live when the loader starts is
\* not fetched from upstream in that rebuild, whether or not the cache-drain
\* loop reached it before its time guard ended the loop.
C4_NoFetchOfCachedChannel ==
    \A r \in Slots : req[r].liveAtStart \cap req[r].fetched = {}

\* Elapsed time at the moment the batch in flight was started.
BatchStartElapsed(q) == q.batchStartedAt - q.startTime

\* C5: the hobby loader starts no batch of fetches once elapsed time exceeds
\* 0.7 * maxTime: every batch is started at an elapsed time within it.
C5_HobbyBatchWithinBudget ==
    variant = "hobby" =>
        \A r \in Slots :
            req[r].pc = "await" => ~(BatchStartElapsed(req[r]) * 10 > 7 * 5000)

\* A hobby loader with nothing cached has returned past 70% of its budget
\* after one batch: the second batch of its chunk and the next chunk, whose
\* channels are still to be fetched, were not started.
C5_Witness ==
    \E r \in Slots :
        /\ variant = "hobby"
        /\ req[r].pc = "loaded"
        /\ req[r].liveAtStart = {}
        /\ (clock - req[r].startTime) * 10 > 7 * 5000
        /\ Cardinality(req[r].fetched) = BATCH_SIZE
        /\ Len(req[r].remainingChannels) > CHANNELS_PER_CHUNK

\* C6: the enhanced loader starts no batch of fetches once elapsed time
\* exceeds 0.85 * maxTime, the later batches of the chunk in progress included.
C6_EnhancedBatchWithinBudget ==
    variant = "enhanced" =>
        \A r \in Slots :
            req[r].pc = "await" => ~(BatchStartElapsed(req[r]) * 100 > 85 * 8000)

\* C7: the loader's output holds only channels with a non-null, non-empty
\* upstream id, each at most once, so it is no longer than the registry's
\* count of such channels.
C7_LoaderOutputBounded ==
    \A r \in Slots :
        LET out == req[r].allResults IN
        /\ \A k \in 1..Len(out) :
             CHANNEL_MAP[out[k].tvgId] # NULL /\ CHANNEL_MAP[out[k].tvgId] # EMPTY
        /\ \A k, l \in 1..Len(out) : out[k].tvgId = out[l].tvgId => k = l
        /\ Len(out) <= ValidCount

\* A loader whose registry has a key without an upstream id has returned every
\* valid channel, some from the channel cache and some freshly fetched.
C7_Witness ==
    \E r \in Slots :
        LET out == req[r].allResults IN
        /\ req[r].pc = "loaded"
        /\ ValidCount < NumChannels
        /\ Len(out) = ValidCount
        /\ \E k \in 1..Len(out) : out[k].fromCache
        /\ \E k \in 1..Len(out) : ~out[k].fromCache

\* A document that holds nothing but one synthetic error channel and programme.
IsErrorDocument(doc) ==
    /\ doc # None
    /\ doc[1].channels = <<ERROR_CHANNEL>>
    /\ Len(doc[1].programmes) = 1
    /\ doc[1].programmes[1].channel = ERROR_CHANNEL

\* C8: a rebuild whose loader obtained no channel answers with status 503, or
\* with status 200 and the single-error-channel document; no other status.
C8_TotalFailureStatus ==
    \A r \in Slots :
        (Rebuilt(req[r]) /\ req[r].obtained = 0) =>
            \/ req[r].response.status = 503
            \/ req[r].response.status = 200 /\ IsErrorDocument(req[r].response.doc)

\* C9: a rebuild whose loader returned at least one channel answers 200 with
\* the rendered document (MISS-FULL or MISS-PARTIAL), never the error response.
C9_OnlyZeroChannelsFatal ==
    \A r \in Slots :
        (Rebuilt(req[r]) /\ req[r].obtained >= 1) =>
            /\ req[r].response.status = 200
            /\ req[r].response.xCache \in {"MISS-FULL", "MISS-PARTIAL"}

\* C10: a record carries an enrichment object only if season and episode were
\* both classified and the episode lookup resolved; there is no object that
\* carries the show alone.
C10_NoPartialEnrichment ==
    \A r \in Slots :
        \A k \in 1..Len(req[r].allProgrammes) :
            LET p == req[r].allProgrammes[k] IN
            p.tmdb # None =>
                /\ p.tmdb[1].season # 0
                /\ p.tmdb[1].episode # 0
                /\ p.tmdb[1].episodeName # ""

\* What identifies a record of the extractor: its channel and its title.
Records(programmes) ==
    [k \in 1..Len(programmes) |->
        [channelId |-> programmes[k].channelId, title |-> programmes[k].title]]

EnrichmentPhase == {"extracted", "aiBatch", "aiAwait", "tmdb", "convert"}

\* C11: enrichment never drops or reorders records.  From extraction to the
\* call of the serializer the list holds exactly the records the extractor
\* produced, once each and in extraction order, whatever the classifier and
\* the lookups answered; the rendered document has one programme per record,
\* in that order.
C11_EnrichmentKeepsRecords ==
    [][\A r \in Slots :
         (variant = "enhanced" /\ req[r].pc \in EnrichmentPhase) =>
            /\ Records(req[r].allProgrammes) = Records(ExtractFrom(req[r].allResults, 1))
            /\ (req'[r].pc = "done" /\ req'[r].response.doc # None) =>
                 LET out == req'[r].response.doc[1].programmes IN
                 /\ Len(out) = Len(req[r].allProgrammes)
                 /\ \A k \in 1..Len(out) : out[k].channel = req[r].allProgrammes[k].channelId]_vars

\* Enrichment is over for a list of three records: one was skipped by the
\* pre-filter, one was enriched, one was left as extracted.
C11_Witness ==
    \E r \in Slots :
        LET ps == req[r].allProgrammes IN
        /\ req[r].pc = "convert"
        /\ Len(ps) = 3
        /\ \E k \in 1..3 : ps[k].title \in NewsOrSports /\ ps[k].tmdb = None
        /\ \E k \in 1..3 : ps[k].tmdb # None
        /\ \E k \in 1..3 : ps[k].title \notin NewsOrSports /\ ps[k].tmdb = None

\* C12: when the classifier's array does not have the length of the batch it
\* was given, no record of that batch is enriched.
C12_ShapeValidatedBeforeMerge ==
    \A r \in Slots :
        (req[r].pc = "tmdb" /\ Len(req[r].aiResults) # Len(AiBatch(req[r]))) =>
            \A j \in 1..Len(AiBatch(req[r])) :
                req[r].allProgrammes[AiBatch(req[r])[j]].tmdb = None

\* What /refresh leaves behind: no tier with a servable document, no entry in
\* the channel cache, and the answer 200.
Cleared ==
    /\ fullCache.data = None /\ fullCache.timestamp = 0
    /\ partialCache.data = None /\ partialCache.timestamp = 0
    /\ \A c \in TvgIds : ~channelCache[c].present
    /\ history.refreshAnswer = 200

NoneFromCache(q) == \A k \in 1..Len(q.allResults) : ~q.allResults[k].fromCache

\* C13, as the code has it: /refresh handled while no rebuild is in flight
\* leaves both tiers without a servable document and the channel cache empty
\* and answers 200.  The next GET / is never a cache hit: it takes the rebuild
\* path, finds no live channel-cache entry, and every channel it obtains it
\* has fetched.  It answers MISS-FULL or MISS-PARTIAL unless the rebuild ends
\* in the error response.
C13_RefreshThenRebuild ==
    /\ history.quiet => Cleared
    /\ \A r \in Slots :
         req[r].afterRefresh =>
            /\ req[r].response.xCache \notin {"HIT-FULL", "HIT-PARTIAL"}
            /\ req[r].liveAtStart = {}
            /\ NoneFromCache(req[r])
            /\ ResultIds(req[r].allResults) \subseteq req[r].fetched
            /\ req[r].pc = "done" =>
                 \/ req[r].response.xCache \in {"MISS-FULL", "MISS-PARTIAL"}
                 \/ req[r].response = ErrorResponse

\* A tier had been built, /refresh was handled with no rebuild in flight, and
\* the next GET / has rebuilt from every channel of the registry.
C13_Witness ==
    \E r \in Slots :
        /\ req[r].afterRefresh
        /\ req[r].pc = "done"
        /\ req[r].response.xCache = "MISS-FULL"
        /\ req[r].obtained = ValidCount
        /\ req[r].tiersAtArrival.full.data = None
        /\ req[r].tiersAtArrival.full.channelCount > 0

\* C13 as stated: the next GET / after such a /refresh always answers with
\* X-Cache MISS-FULL or MISS-PARTIAL.
C13_AsStated ==
    /\ history.quiet => Cleared
    /\ \A r \in Slots :
         (req[r].afterRefresh /\ req[r].pc = "done") =>
            req[r].response.xCache \in {"MISS-FULL", "MISS-PARTIAL"}

\* C14: once a /refresh has been handled, no GET / is answered from a tier
\* whose document was built by an invocation that already held payloads when
\* the /refresh was handled.
C14_NothingOldServedAfterRefresh ==
    [][\A r \in Slots :
         req'[r] # req[r] =>
            /\ req'[r].response.xCache = "HIT-FULL" => ~history.old.full
            /\ req'[r].response.xCache = "HIT-PARTIAL" => ~history.old.partial]_vars

\* A tier is entirely empty, or everything it holds comes from one rebuild:
\* a build time and the counts of the document it holds.
Wholesale(tier) ==
    IF tier.data = None
    THEN tier.timestamp = 0 /\ tier.channelCount = 0 /\ tier.programmeCount = 0
    ELSE /\ tier.timestamp # 0
         /\ tier.channelCount = Len(tier.data[1].channels)
         /\ tier.programmeCount = Len(tier.data[1].programmes)

\* C15: in every reachable state each tier is either entirely empty (no
\* document, no build time, no counts of an earlier build) or its document,
\* build time and counts all come from the same rebuild.
C15_TiersReplacedWholesale == Wholesale(fullCache) /\ Wholesale(partialCache)

\* Empty: no document.  Fresh: a document younger than the TTL.  Stale: a
\* document as old as the TTL or older.
TierClass(tier, ttl, now) ==
    IF tier.data = None THEN "Empty"
    ELSE IF now - tier.timestamp < ttl THEN "Fresh" ELSE "Stale"

\* How a tier may change class in one step: it becomes Fresh when a rebuild
\* writes it, Stale when it is left alone and its TTL elapses, Empty when it
\* is cleared.
TierMoves(tier, next, ttl) ==
    LET from == TierClass(tier, ttl, clock)
        to == TierClass(next, ttl, clock')
    IN  from # to =>
          \/ /\ from \in {"Empty", "Stale"} /\ to = "Fresh"
             /\ next.timestamp = clock'
          \/ /\ from = "Fresh" /\ to = "Stale"
             /\ next = tier
          \/ /\ from \in {"Fresh", "Stale"} /\ to = "Empty"
             /\ next.timestamp = 0

\* C16, as the code has it: a tier goes from Empty or Stale to Fresh by a
\* rebuild's write, from Fresh to Stale when its TTL elapses, and from Fresh or
\* Stale to Empty by an explicit clear; it never goes from Empty to Stale.
C16_TierTransitions ==
    [][/\ TierMoves(fullCache, fullCache', FullTTL)
       /\ TierMoves(partialCache, partialCache', PartialTTL)]_vars

\* A rebuild that found the partial tier holding a document too old to serve
\* has written the partial tier, which is Fresh again.
C16_Witness ==
    \E r \in Slots :
        /\ req[r].pc = "done"
        /\ req[r].response.xCache = "MISS-PARTIAL"
        /\ TierClass(req[r].tiersAtArrival.partial, PartialTTL, req[r].startTime) = "Stale"
        /\ partialCache.data = req[r].response.doc
        /\ TierClass(partialCache, PartialTTL, clock) = "Fresh"

Cycle == {<<"Empty", "Fresh">>, <<"Fresh", "Stale">>, <<"Stale", "Empty">>}

\* C16 as stated: the only changes of class are Empty to Fresh, Fresh to
\* Stale and Stale to Empty.
C16_AsStated ==
    [][/\ TierClass(fullCache, FullTTL, clock) # TierClass(fullCache', FullTTL, clock')
          => <<TierClass(fullCache, FullTTL, clock),
               TierClass(fullCache', FullTTL, clock')>> \in Cycle
       /\ TierClass(partialCache, PartialTTL, clock)
             # TierClass(partialCache', PartialTTL, clock')
          => <<TierClass(partialCache, PartialTTL, clock),
               TierClass(partialCache', PartialTTL, clock')>> \in Cycle]_vars

\* The step appends to the output of slot r a payload taken from the channel
\* cache.
TakesFromCache(r) ==
    /\ Len(req'[r].allResults) = Len(req[r].allResults) + 1
    /\ req'[r].allResults[Len(req'[r].allResults)].fromCache

\* C17: a payload the cache-drain phase takes from the channel cache is the
\* one the cache holds for that channel, and its fetch was issued less than
\* TTL_channel (1 hour) before the start of the rebuild that takes it; an
\* entry's stamp, the start of the loader run that fetched it, is never later
\* than the fetch itself.
C17_ChannelCacheTTL ==
    [][/\ \A c \in TvgIds :
            channelCache[c].present =>
               /\ history.fetchedAt[c] # 0
               /\ channelCache[c].timestamp <= history.fetchedAt[c]
       /\ \A r \in Slots :
            TakesFromCache(r) =>
               LET e == req'[r].allResults[Len(req'[r].allResults)] IN
               /\ e.xml = channelCache[e.tvgId].xml
               /\ req[r].startTime - history.fetchedAt[e.tvgId] >= 0
               /\ req[r].startTime - history.fetchedAt[e.tvgId] < 60 * 60 * 1000]_vars

\* A rebuild that started at least a partial-tier TTL after an earlier one
\* has taken from the channel cache a payload the earlier one fetched.
C17_Witness ==
    \E r \in Slots :
        \E k \in 1..Len(req[r].allResults) :
            LET e == req[r].allResults[k] IN
            /\ e.fromCache
            /\ channelCache[e.tvgId].present
            /\ history.fetchedAt[e.tvgId] # 0
            /\ req[r].startTime - history.fetchedAt[e.tvgId] >= PartialTTL

\* The step is the one in which slot r, back from its await, goes through the
\* results of the batch it had in flight.
ProcessesBatch(r) ==
    /\ req[r].pc = "await"
    /\ <<req'[r].i, req'[r].j>> # <<req[r].i, req[r].j>>

\* C18: a channel whose fetch fails is absent from the loader's output and its
\* channel-cache entry is left as it was; every other channel of the batch is
\* obtained and cached, what was obtained before is kept, and the loader goes
\* on without an error; no channel is fetched twice in one invocation.
C18_FailureIsolation ==
    [][\A r \in Slots :
         /\ req[r].refetched = {}
         /\ req[r].failed \cap ResultIds(req[r].allResults) = {}
         /\ ProcessesBatch(r) =>
              /\ SubSeq(req'[r].allResults, 1, Len(req[r].allResults)) = req[r].allResults
              /\ req'[r].pc \in {"await", "chunk"}
              /\ req'[r].response = NoResponse
              /\ \A c \in SeqToSet(req[r].batch) :
                   IF c \in req'[r].failed
                   THEN /\ c \notin ResultIds(req'[r].allResults)
                        /\ channelCache'[c] = channelCache[c]
                   ELSE /\ c \in ResultIds(req'[r].allResults)
                        /\ channelCache'[c].present]_vars

\* A loader has returned after a fetch of its first batch failed: the other
\* channel of that batch and the channel of the next batch are in its output.
C18_Witness ==
    \E r \in Slots :
        /\ req[r].pc = "loaded"
        /\ req[r].liveAtStart = {}
        /\ BATCH_SIZE = 2
        /\ Len(req[r].remainingChannels) = 3
        /\ Cardinality(req[r].failed) = 1
        /\ req[r].failed \subseteq SeqToSet(SubSeq(req[r].remainingChannels, 1, BATCH_SIZE))
        /\ Len(req[r].allResults) = 2
        /\ req[r].fetched = req[r].failed \cup ResultIds(req[r].allResults)

\* C19: whenever a freshly fetched channel is appended to the loader's output,
\* the same step has put its payload into the channel cache under the
\* channel's id, stamped with the loader's start; so no channel is in the
\* output, or returned, fresh without having been cached.
C19_CachedBeforeReturned ==
    [][\A r \in Slots :
         \A k \in (Len(req[r].allResults) + 1)..Len(req'[r].allResults) :
            LET e == req'[r].allResults[k] IN
            ~e.fromCache =>
               /\ ProcessesBatch(r)
               /\ channelCache'[e.tvgId].present
               /\ channelCache'[e.tvgId].xml = e.xml
               /\ channelCache'[e.tvgId].timestamp = req[r].loaderNow]_vars

\* A loader has returned a freshly fetched payload with a programme in it, and
\* the channel cache holds that payload under the channel's id.
C19_Witness ==
    \E r \in Slots :
        /\ req[r].pc = "loaded"
        /\ \E k \in 1..Len(req[r].allResults) :
             LET e == req[r].allResults[k] IN
             /\ ~e.fromCache
             /\ e.xml # <<>>
             /\ channelCache[e.tvgId] =
                  [present |-> TRUE, xml |-> e.xml, timestamp |-> req[r].loaderNow]

\* C20: the cache-drain phase leaves the channel cache as it is, payloads and
\* stamps; an entry changes only when a fetch of its channel is cached or
\* when the cache is cleared, so no hit extends its life.
C20_ReadLeavesCacheAlone ==
    [][/\ \A r \in Slots :
            (req[r].pc = "drain" /\ req'[r] # req[r]) => channelCache' = channelCache
       /\ \A c \in TvgIds :
            channelCache'[c] # channelCache[c] =>
               \/ \E r \in Slots : ProcessesBatch(r) /\ c \in SeqToSet(req[r].batch)
               \/ ~channelCache'[c].present]_vars

\* A cache-drain phase has taken two payloads from the channel cache, and the
\* entries still carry the payloads and the stamp of an earlier loader run.
C20_Witness ==
    \E r \in Slots :
        /\ Len(req[r].allResults) >= 2
        /\ \A k \in 1..2 :
             LET e == req[r].allResults[k] IN
             /\ e.fromCache
             /\ channelCache[e.tvgId].present
             /\ channelCache[e.tvgId].xml = e.xml
             /\ channelCache[e.tvgId].timestamp < req[r].loaderNow

\* C21: every 200 answer to GET / that carries partial-tier data, served from
\* the partial tier or freshly built below the threshold, carries X-Warning, in
\* both variants; an answer that carries full-tier data carries none.
C21_DegradationSignalled ==
    \A r \in Slots :
        (req[r].pc = "done" /\ req[r].response.status = 200) =>
            /\ req[r].response.xCache \in {"HIT-PARTIAL", "MISS-PARTIAL"}
                 => req[r].response.xWarning
            /\ req[r].response.xCache \in {"HIT-FULL", "MISS-FULL"}
                 => ~req[r].response.xWarning

\* Where an invocation is while the enrichment pipeline runs: at the top of
\* the classifier loop, waiting for the classifier, or in the metadata lookups.
Enriching == {"aiBatch", "aiAwait", "tmdb"}

\* Slot r enters the enrichment pipeline in this step.
EntersEnrichment(r) == req[r].pc \notin Enriching /\ req'[r].pc \in Enriching

\* Slot r issues a classifier call or a metadata lookup in this step.
CallsCollaborator(r) ==
    \/ req[r].pc = "aiBatch" /\ req'[r].pc = "aiAwait"
    \/ req[r].pc = "tmdb" /\ req'[r].aiJ = req[r].aiJ + 1

\* C22, as the code has it: the enrichment pipeline is entered only when
\* extraction has just finished, a classifier key is configured and elapsed
\* time is below 70% of maxDuration (the remaining budget exceeds 30% of it);
\* a classifier call or a metadata lookup is issued only from inside the
\* pipeline, so a rebuild whose gate was closed issues none.
C22_EnrichmentGate ==
    [][\A r \in Slots :
         /\ EntersEnrichment(r) =>
              /\ req[r].pc = "extracted"
              /\ GROQ_API_KEY
              /\ (clock - req[r].startTime) * 10 < 7 * 8000
         /\ CallsCollaborator(r) => req[r].pc \in Enriching
         /\ (req[r].pc = "extracted" /\ req'[r].pc # "extracted" /\ ~EntersEnrichment(r))
              => (req'[r].pc \in {"done", "convert"}
                  /\ req'[r].allProgrammes \in {req[r].allProgrammes, <<>>})]_vars

\* A rebuild whose extraction finished with 70% of the budget less one
\* millisecond gone has sent a batch to the classifier.
C22_Witness ==
    \E r \in Slots :
        /\ req[r].pc = "aiAwait"
        /\ clock - req[r].startTime = 5599

\* C22 as stated: the pipeline is entered only if the remaining budget,
\* maxDuration minus elapsed, exceeds 70% of maxDuration.
C22_AsStated ==
    [][\A r \in Slots :
         EntersEnrichment(r) =>
            /\ GROQ_API_KEY
            /\ (8000 - (clock - req[r].startTime)) * 10 > 7 * 8000]_vars

\* C23: in both variants extractProgrammes returns at most 50 records for one
\* payload: the first min(n, 50) programme elements, in payload order, each
\* tagged with the channel id it was given.
C23_ExtractorCap ==
    (call.fn = "extractProgrammes" /\ call.result # None) =>
        LET xml == call.args[1]
            out == call.result[1]
        IN  /\ Len(out) <= 50
            /\ Len(out) = Min(Len(xml), 50)
            /\ \A k \in 1..Len(out) :
                 out[k].title = xml[k] /\ out[k].channelId = call.args[2]

\* The channelIds of a list of records; `all` says whether an empty channelId
\* counts as one.
ChannelIds(programmes, all) ==
    {programmes[k].channelId : k \in 1..Len(programmes)}
        \ (IF all THEN {} ELSE {NO_CHANNEL_ID})

\* Position of the first record of the list that carries channelId c.
FirstOccurrence(programmes, c) ==
    CHOOSE k \in 1..Len(programmes) :
        /\ programmes[k].channelId = c
        /\ \A j \in 1..(k - 1) : programmes[j].channelId # c

\* The document has exactly one channel element per id of `ids`, in order of
\* first occurrence in the list, then exactly one programme element per
\* record, in the order of the list; no channel element follows a programme
\* element.
SerializedInOrder(programmes, doc, ids) ==
    /\ Len(doc.channels) = Cardinality(ids)
    /\ {doc.channels[i] : i \in 1..Len(doc.channels)} = ids
    /\ \A i, j \in 1..Len(doc.channels) :
         i < j => FirstOccurrence(programmes, doc.channels[i])
                    < FirstOccurrence(programmes, doc.channels[j])
    /\ Len(doc.programmes) = Len(programmes)
    /\ \A k \in 1..Len(programmes) :
         /\ doc.programmes[k].channel = programmes[k].channelId
         /\ doc.programmes[k].title = <<programmes[k].title>>
    /\ Len(doc.layout) = Len(doc.channels) + Len(doc.programmes)
    /\ \A i, j \in 1..Len(doc.layout) :
         (i < j /\ doc.layout[i] = "programme") => doc.layout[j] = "programme"
    /\ Cardinality({i \in 1..Len(doc.layout) : doc.layout[i] = "channel"})
         = Len(doc.channels)

\* C24, as the code has it: for every list of records convertToXMLTV emits
\* exactly one channel element per distinct non-empty channelId, in order of
\* first occurrence, followed by exactly one programme element per record in
\* input order, a record without channelId included; no channel element
\* follows a programme element.
C24_SerializerOrdering ==
    (call.fn = "convertToXMLTV" /\ call.result # None) =>
        SerializedInOrder(call.args[1], call.result[1], ChannelIds(call.args[1], FALSE))

\* The serializer has returned for a list in which a channel comes back after
\* another one and one record has no channelId: two channel elements, in
\* order of first occurrence, and four programme elements.
C24_Witness ==
    /\ call.fn = "convertToXMLTV"
    /\ call.result # None
    /\ Len(call.args[1]) = 4
    /\ \E k \in 1..4 : call.args[1][k].channelId = NO_CHANNEL_ID
    /\ call.args[1][1].channelId = 2
    /\ call.args[1][2].channelId = 1
    /\ call.args[1][3].channelId = 2
    /\ call.result[1].channels = <<2, 1>>
    /\ Len(call.result[1].programmes) = 4

\* C24 as stated: one channel element per distinct channelId, whatever the
\* channelId is.
C24_AsStated ==
    (call.fn = "convertToXMLTV" /\ call.result # None) =>
        SerializedInOrder(call.args[1], call.result[1], ChannelIds(call.args[1], TRUE))

\* C25: a record that is not fully enriched, having no enrichment object or
\* one that lacks season or episode, is rendered with a title element and, if
\* its description is not empty, a description element, and nothing else: no
\* sub-title, episode-num, icon, image or category.
C25_UnenrichedTitleAndDescOnly ==
    (call.fn = "buildProgramme" /\ call.result # None) =>
        LET p == call.args[1]
            el == call.result[1]
        IN  (p.tmdb = None \/ p.tmdb[1].season = 0 \/ p.tmdb[1].episode = 0) =>
                /\ el.title = <<p.title>>
                /\ el.desc = (IF p.description # "" THEN <<p.description>> ELSE <<>>)
                /\ el.subTitle = ""
                /\ el.episodeNum = <<>>
                /\ ~el.icon
                /\ ~el.image
                /\ el.category = <<>>

\* The number a string of decimal digits stands for.
RECURSIVE Value(_)
Value(chars) ==
    IF chars = <<>> THEN 0
    ELSE Value(SubSeq(chars, 1, Len(chars) - 1)) * 10
         + (CHOOSE d \in 0..9 : DIGITS[d + 1] = chars[Len(chars)])

\* chars is the decimal numeral of n, padded with zeros on the left to width
\* characters when it is shorter.
IsNumeral(chars, n, width) ==
    /\ Len(chars) >= width
    /\ \A i \in 1..Len(chars) : \E d \in 0..9 : chars[i] = DIGITS[d + 1]
    /\ Value(chars) = n
    /\ Len(chars) > width => chars[1] # "0"

\* chars reads: before, a numeral of m, between, a numeral of n, after.
Reads(chars, before, m, between, n, after, width) ==
    \E i \in 1..Len(chars) :
        /\ chars[i] = between
        /\ \A j \in 1..(i - 1) : chars[j] # between
        /\ SubSeq(chars, 1, Len(before)) = before
        /\ IsNumeral(SubSeq(chars, Len(before) + 1, i - 1), m, width)
        /\ SubSeq(chars, Len(chars) - Len(after) + 1, Len(chars)) = after
        /\ IsNumeral(SubSeq(chars, i + 1, Len(chars) - Len(after)), n, width)

\* C26: for a record enriched with season s >= 1 and episode e >= 1,
\* buildProgramme writes two episode-num elements: system xmltv_ns with the
\* value '(s-1).(e-1).', and system onscreen with 'S', s padded with zeros to
\* two digits, 'E', e padded with zeros to two digits; when the episode title
\* is known the title is the show name, ' - ', the episode title.
C26_EpisodeNumbering ==
    (call.fn = "buildProgramme" /\ call.result # None) =>
        LET p == call.args[1]
            el == call.result[1]
        IN  (p.tmdb # None /\ p.tmdb[1].season >= 1 /\ p.tmdb[1].episode >= 1) =>
                LET s == p.tmdb[1].season
                    e == p.tmdb[1].episode
                IN  /\ Len(el.episodeNum) = 2
                    /\ el.episodeNum[1].system = "xmltv_ns"
                    /\ Reads(el.episodeNum[1].value, <<>>, s - 1, ".", e - 1, <<".">>, 1)
                    /\ el.episodeNum[2].system = "onscreen"
                    /\ Reads(el.episodeNum[2].value, <<"S">>, s, "E", e, <<>>, 2)
                    /\ (s = 1 /\ e = 1) =>
                         /\ el.episodeNum[1].value = <<"0", ".", "0", ".">>
                         /\ el.episodeNum[2].value = <<"S", "0", "1", "E", "0", "1">>
                    /\ p.tmdb[1].episodeName # "" =>
                         el.title = <<p.tmdb[1].showName, " - ", p.tmdb[1].episodeName>>

\* Season 10, episode 1 of a show has been rendered: '9.0.' and 'S10E01', and
\* the title carries the episode title.
C26_Witness ==
    /\ call.fn = "buildProgramme"
    /\ call.result # None
    /\ call.args[1].tmdb # None
    /\ call.args[1].tmdb[1].season = 10
    /\ call.args[1].tmdb[1].episode = 1
    /\ call.result[1].episodeNum[1].value = <<"9", ".", "0", ".">>
    /\ call.result[1].episodeNum[2].value = <<"S", "1", "0", "E", "0", "1">>
    /\ call.result[1].title = <<"Show", " - ", "Pilot">>

DaysInMonth(y, m) ==
    IF m = 2 THEN (IF y % 4 = 0 /\ (y % 100 # 0 \/ y % 400 = 0) THEN 29 ELSE 28)
    ELSE IF m \in {4, 6, 9, 11} THEN 30 ELSE 31

\* The civil date and time `days` whole days after t, by the calendar.
RECURSIVE PlusDays(_, _)
PlusDays(t, days) ==
    IF days = 0 THEN t
    ELSE IF t.D < DaysInMonth(t.Y, t.M) THEN PlusDays([t EXCEPT !.D = t.D + 1], days - 1)
    ELSE IF t.M < 12 THEN PlusDays([t EXCEPT !.D = 1, !.M = t.M + 1], days - 1)
    ELSE PlusDays([t EXCEPT !.D = 1, !.M = 1, !.Y = t.Y + 1], days - 1)

\* The civil date and time `minutes` minutes after t, by the calendar.
PlusMinutes(t, minutes) ==
    LET total == t.h * 60 + t.m + minutes
    IN  PlusDays([t EXCEPT !.h = (total % 1440) \div 60, !.m = total % 60], total \div 1440)

\* chars is t written as 14 zero-padded digits YYYYMMDDHHMMSS and ' +0000'.
IsStamp(chars, t) ==
    /\ Len(chars) = 20
    /\ IsNumeral(SubSeq(chars, 1, 4), t.Y, 4)
    /\ IsNumeral(SubSeq(chars, 5, 6), t.M, 2)
    /\ IsNumeral(SubSeq(chars, 7, 8), t.D, 2)
    /\ IsNumeral(SubSeq(chars, 9, 10), t.h, 2)
    /\ IsNumeral(SubSeq(chars, 11, 12), t.m, 2)
    /\ IsNumeral(SubSeq(chars, 13, 14), t.s, 2)
    /\ SubSeq(chars, 15, 20) = <<" ", "+", "0", "0", "0", "0">>

\* C27: for every UTC start instant and duration in minutes, each copy of
\* convertMultipleToXMLTV writes start and stop as 14 zero-padded digits
\* YYYYMMDDHHMMSS followed by ' +0000', stop being start plus the duration;
\* 2026-01-29T00:00:00Z with 60 minutes gives '20260129000000 +0000' and
\* '20260129010000 +0000'.
C27_TimestampFormat ==
    (call.fn = "convertMultipleToXMLTV" /\ call.result # None) =>
        LET t == call.args[3]
            d == call.args[2].duration
        IN  /\ IsStamp(call.result[1].start, t)
            /\ IsStamp(call.result[1].stop, PlusMinutes(t, d))
            /\ (t = [Y |-> 2026, M |-> 1, D |-> 29, h |-> 0, m |-> 0, s |-> 0] /\ d = 60) =>
                 /\ call.result[1].start
                      = <<"2", "0", "2", "6", "0", "1", "2", "9", "0", "0", "0", "0", "0", "0",
                          " ", "+", "0", "0", "0", "0">>
                 /\ call.result[1].stop
                      = <<"2", "0", "2", "6", "0", "1", "2", "9", "0", "1", "0", "0", "0", "0",
                          " ", "+", "0", "0", "0", "0">>

\* Slot r starts upstream fetches in this step: a batch is issued.
StartsFetches(r) ==
    /\ req'[r].pc = "await"
    /\ req[r].pc # "await" \/ <<req'[r].i, req'[r].j>> # <<req[r].i, req[r].j>>

\* C28: at every moment of a rebuild at most BATCH_SIZE of its upstream
\* fetches are in flight, and fetches are in flight only while the loader
\* waits for its batch; no fetch of a batch is started before every fetch of
\* the batch before it has completed, with a payload or without.
C28_BoundedConcurrency ==
    [][\A r \in Slots :
         /\ Cardinality(req[r].pending) <= BATCH_SIZE
         /\ req[r].pending # {} => req[r].pc = "await"
         /\ StartsFetches(r) =>
              /\ req[r].pending = {}
              /\ Cardinality(req'[r].pending) = Len(req'[r].batch)
              /\ Len(req'[r].batch) \in 1..BATCH_SIZE
              /\ req'[r].fetched = req[r].fetched \cup SeqToSet(req'[r].batch)]_vars

\* The enhanced loader has issued the second batch of its chunk; of the two
\* fetches of the first batch one had failed and one had brought a payload.
C28_Witness ==
    \E r \in Slots :
        /\ BATCH_SIZE = 2
        /\ req[r].pc = "await"
        /\ req[r].j = BATCH_SIZE
        /\ req[r].pending # {}
        /\ Cardinality(req[r].failed) = 1
        /\ Len(req[r].allResults) = 1
        /\ Cardinality(req[r].fetched) = 3

\* C29: every fetch of a batch that brought a payload is cached and appended
\* to the loader's output when the batch completes, however late that is:
\* past the stop threshold or past maxTime itself.  Nothing is taken out of
\* the output while the loader runs, and what the loader returns is what it
\* has collected.
C29_FinishedWorkKept ==
    [][\A r \in Slots :
         /\ ProcessesBatch(r) =>
              \A k \in 1..Len(req[r].batch) :
                 req[r].results[k].ok =>
                    /\ \E n \in (Len(req[r].allResults) + 1)..Len(req'[r].allResults) :
                         req'[r].allResults[n] = [tvgId |-> req[r].batch[k],
                                                  xml |-> req[r].results[k].xml,
                                                  fromCache |-> FALSE]
                    /\ channelCache'[req[r].batch[k]].present
                    /\ channelCache'[req[r].batch[k]].xml = req[r].results[k].xml
         /\ (req[r].pc \in {"drain", "chunk", "await"} /\ req'[r].pc # "done") =>
              /\ Len(req'[r].allResults) >= Len(req[r].allResults)
              /\ SubSeq(req'[r].allResults, 1, Len(req[r].allResults)) = req[r].allResults
         /\ (req[r].pc = "chunk" /\ req'[r].pc = "loaded") =>
              req'[r].allResults = req[r].allResults]_vars

\* A loader has returned past its whole budget with the payload of its one
\* batch, started at elapsed time 0: the payload is in the output and in the
\* channel cache, and channels of the registry are left unfetched.
C29_Witness ==
    \E r \in Slots :
        /\ req[r].pc = "loaded"
        /\ clock - req[r].startTime > MAX_EXECUTION_TIME
        /\ req[r].batchStartedAt = req[r].startTime
        /\ req[r].liveAtStart = {}
        /\ Len(req[r].allResults) >= 1
        /\ \A k \in 1..Len(req[r].allResults) :
             /\ ~req[r].allResults[k].fromCache
             /\ channelCache[req[r].allResults[k].tvgId].present
             /\ channelCache[req[r].allResults[k].tvgId].xml = req[r].allResults[k].xml
        /\ Cardinality(req[r].fetched) < ValidCount

\* Slot r starts a classifier call in this step.
StartsClassifierCall(r) == req[r].pc = "aiBatch" /\ req'[r].pc = "aiAwait"

\* Slot r starts a metadata lookup in this step: the merge loop is at a
\* result that says the listing is a series.
StartsLookup(r) ==
    /\ req[r].pc = "tmdb"
    /\ req'[r].aiJ = req[r].aiJ + 1
    /\ req[r].aiResults[req[r].aiJ + 1].isSeries

\* Elapsed time of slot r is above 0.8 * MAX_EXECUTION_TIME.
PastCheckpoint(r) == (clock - req[r].startTime) * 10 > 8 * 8000

\* Positions in allProgrammes of the candidates of the batches not yet begun.
RemainingCandidates(q) == {q.seriesToEnrich[n] : n \in (q.aiIdx + 1)..Len(q.seriesToEnrich)}

\* The classifier loop was left with batches to go.
Abandoned(q) == q.pc = "convert" /\ q.aiIdx < Len(q.seriesToEnrich)

\* C30, as the code has it: elapsed time is read at the top of each
\* classifier batch.  A classifier call is started only by a check that found
\* elapsed time at most 0.8 * MAX_EXECUTION_TIME; a check that finds it above
\* leaves the loop with the list untouched, and from then on the rebuild
\* starts no classifier call and no metadata lookup: its next step writes a
\* tier and answers 200 with a document that has every record, and the
\* records of the batches that were not begun are rendered unenriched.
C30_EnrichmentCheckpoint ==
    [][\A r \in Slots :
         /\ StartsClassifierCall(r) => ~PastCheckpoint(r)
         /\ (req[r].pc = "aiBatch" /\ req[r].aiIdx < Len(req[r].seriesToEnrich)
               /\ PastCheckpoint(r) /\ req'[r] # req[r]) =>
              /\ Abandoned(req'[r])
              /\ req'[r].allProgrammes = req[r].allProgrammes
         /\ (Abandoned(req[r]) /\ req'[r] # req[r]) =>
              /\ ~StartsClassifierCall(r) /\ ~StartsLookup(r)
              /\ req'[r].pc = "done"
              /\ req'[r].response.status = 200
              /\ req'[r].response.doc # None
              /\ Len(req'[r].response.doc[1].programmes) = Len(req[r].allProgrammes)
              /\ \A k \in RemainingCandidates(req[r]) :
                   /\ req[r].allProgrammes[k].tmdb = None
                   /\ req'[r].response.doc[1].programmes[k].episodeNum = <<>>
                   /\ req'[r].response.doc[1].programmes[k].subTitle = ""
                   /\ req'[r].response.doc[1].programmes[k].title
                        = <<req[r].allProgrammes[k].title>>]_vars

\* The check before the second classifier batch found elapsed time above
\* 0.8 * MAX_EXECUTION_TIME: a record of the first batch is enriched and the
\* candidate of the second batch is left as extracted.
C30_Witness ==
    \E r \in Slots :
        /\ Abandoned(req[r])
        /\ PastCheckpoint(r)
        /\ req[r].aiIdx = 2
        /\ RemainingCandidates(req[r]) # {}
        /\ \E k \in 1..Len(req[r].allProgrammes) : req[r].allProgrammes[k].tmdb # None
        /\ \A k \in RemainingCandidates(req[r]) : req[r].allProgrammes[k].tmdb = None

\* C30 as stated: once elapsed time is above 0.8 * MAX_EXECUTION_TIME, no
\* classifier call and no metadata lookup is started.
C30_AsStated ==
    [][\A r \in Slots :
         (StartsClassifierCall(r) \/ StartsLookup(r)) => ~PastCheckpoint(r)]_vars

\* C31: whenever the full tier holds a document, the number of distinct
\* channels of that document, which is the stored channelCount, is at least
\* the completeness threshold (85% hobby, 90% enhanced) of the number of
\* registry channels with an upstream id.
C31_FullTierCoverage ==
    fullCache.data # None =>
        /\ fullCache.channelCount = Len(fullCache.data[1].channels)
        /\ IF variant = "hobby"
           THEN fullCache.channelCount * 100 >= 85 * totalValidChannels
           ELSE fullCache.channelCount * 10 >= 9 * totalValidChannels

\* C32: with one invocation of GET / at a time, a response taken from a tier
\* while the other tier holds a document too is taken from the tier whose
\* document was built strictly later: an answer from the partial tier
\* (HIT-PARTIAL) is never older than, or as old as, a document present in the
\* full tier, and neither is an answer from the full tier with respect to the
\* partial tier.
C32_NewerTierServed ==
    \A r \in Slots :
        req[r].pc = "done" =>
            LET full == req[r].tiersAtArrival.full
                partial == req[r].tiersAtArrival.partial
            IN  /\ (req[r].response.xCache = "HIT-PARTIAL" /\ full.data # None)
                      => partial.timestamp > full.timestamp
                /\ (req[r].response.xCache = "HIT-FULL" /\ partial.data # None)
                      => full.timestamp > partial.timestamp

\* A request was answered from the partial tier while the full tier held a
\* document of an earlier rebuild, and the answer is the partial tier's document.
C32_Witness ==
    \E r \in Slots :
        /\ req[r].pc = "done"
        /\ req[r].response.xCache = "HIT-PARTIAL"
        /\ req[r].tiersAtArrival.full.data # None
        /\ req[r].response.doc = req[r].tiersAtArrival.partial.data
        /\ req[r].tiersAtArrival.partial.data # req[r].tiersAtArrival.full.data

\* C33: a rebuild R2 that starts after a rebuild R1 has completed, with no
\* /refresh since, while every channel of R1's loader output has a
\* channel-cache entry less than an hour old, and whose cache-drain loop is
\* not cut short by its time guard, returns from the loader with every channel
\* of R1's loader output in its own.
C33_MonotonicCoverage ==
    \A r \in Slots :
        (/\ req[r].pc = "loaded"
         /\ req[r].priorOutput # None
         /\ ~req[r].drainCut)
        => req[r].priorOutput[1] \subseteq ResultIds(req[r].allResults)

\* A loader has returned every channel of the rebuild before it, all of them
\* from the channel cache, and one more that it fetched itself.
C33_Witness ==
    \E r \in Slots :
        /\ req[r].pc = "loaded"
        /\ req[r].priorOutput # None
        /\ ~req[r].drainCut
        /\ req[r].priorOutput[1] # {}
        /\ \A k \in 1..Len(req[r].allResults) :
             req[r].allResults[k].tvgId \in req[r].priorOutput[1]
                => req[r].allResults[k].fromCache
        /\ \E k \in 1..Len(req[r].allResults) :
             req[r].allResults[k].tvgId \notin req[r].priorOutput[1]

\* C34: every GET / handled by the hobby handler is answered in the end,
\* given that every fetch in flight settles in the end; and a rebuild starts
\* at most ceil(N / BATCH_SIZE) batches for the N registry channels with an
\* upstream id, however the clock behaves.
C34_Termination ==
    /\ [](\A r \in Slots :
            req[r].batches * BATCH_SIZE < totalValidChannels + BATCH_SIZE)
    /\ \A r \in Slots : (req[r].pc \notin {"idle", "done"}) ~> (req[r].pc = "done")

\* A hobby rebuild has been answered after the largest number of batches the
\* registry allows, the clock never having moved from its arrival.
C34_Witness ==
    \E r \in Slots :
        /\ variant = "hobby"
        /\ req[r].pc = "done"
        /\ req[r].response.status = 200
        /\ totalValidChannels = NumChannels
        /\ req[r].obtained = NumChannels
        /\ clock = req[r].startTime
        /\ req[r].tiersAtArrival.full.data = None
        /\ req[r].tiersAtArrival.partial.data = None

\* Slot r is answered from the partial tier in this step, with the header
\* X-Warning: Partial data - full refresh in progress.
AnswersPartialWithWarning(r) ==
    /\ req'[r] # req[r]
    /\ req'[r].pc = "done"
    /\ req'[r].response.xCache = "HIT-PARTIAL"
    /\ req'[r].response.xWarning

\* C35: whenever the enhanced handler answers GET / from the partial tier
\* with that header, a rebuild is in progress: another invocation is on the
\* rebuild path, or the answering invocation goes on to rebuild.
C35_RefreshInProgress ==
    [][\A r \in Slots :
         (variant = "enhanced" /\ AnswersPartialWithWarning(r)) =>
            \E q \in Slots : req'[q].pc \notin {"idle", "done"}]_vars

\* Slot r takes a step of its own: its locals change, and not only because a
\* /refresh was noted.
OwnStep(r) == [req'[r] EXCEPT !.preRefresh = req[r].preRefresh] # req[r]

\* Slot r is answered with the error response in this step.
EndsInError(r) ==
    /\ req[r].pc \notin {"idle", "done"}
    /\ req'[r].pc = "done"
    /\ req'[r].response.xCache = ""

\* The tier is as the request found it, or has been cleared since.
AsFoundOrCleared(tier, found) ==
    \/ tier = found
    \/ tier = [found EXCEPT !.data = None, !.timestamp = 0]

\* C36: a rebuild that ends in the error response changes no tier.  None of
\* its steps touches the document, build time or counts of the full or the
\* partial tier, so when it answers both tiers are as the request found them
\* (or as a /refresh handled meanwhile left them); no tier ever holds an
\* error document and no GET / is answered with one from a tier.
C36_FatalRebuildWritesNoTier ==
    [][\A r \in Slots :
         /\ (OwnStep(r) /\ req'[r].response.xCache \notin {"MISS-FULL", "MISS-PARTIAL"}) =>
              /\ fullCache' = fullCache
              /\ partialCache' = partialCache
         /\ EndsInError(r) =>
              /\ AsFoundOrCleared(fullCache', req[r].tiersAtArrival.full)
              /\ AsFoundOrCleared(partialCache', req[r].tiersAtArrival.partial)
              /\ ~IsErrorDocument(fullCache'.data)
              /\ ~IsErrorDocument(partialCache'.data)
         /\ (req'[r].pc = "done" /\ req'[r].response.xCache \in {"HIT-FULL", "HIT-PARTIAL"}) =>
              ~IsErrorDocument(req'[r].response.doc)]_vars

\* A rebuild has ended in the error response while the full tier held the
\* document of an earlier rebuild: the tier is as the request found it.
C36_Witness ==
    \E r \in Slots :
        /\ req[r].pc = "done"
        /\ req[r].response.xCache = ""
        /\ req[r].response.status # 0
        /\ req[r].tiersAtArrival.full.data # None
        /\ fullCache = req[r].tiersAtArrival.full
        /\ partialCache = req[r].tiersAtArrival.partial

\* The keys of the channel cache.
CacheKeys(cache) == {c \in TvgIds : cache[c].present}

\* This step is /refresh: every cache is emptied and no invocation moves.
IsRefresh ==
    /\ CacheKeys(channelCache') = {}
    /\ fullCache'.data = None
    /\ partialCache'.data = None
    /\ \A r \in Slots : req'[r].pc = req[r].pc
    /\ history'.refreshAnswer = 200

\* C37: after any sequence of rebuilds and clears the keys of the channel
\* cache are output ids of registry channels that have an upstream id, so
\* there are never more entries than such channels; and an entry leaves the
\* cache only in /refresh: a read that finds it expired leaves it there.
C37_ChannelCacheBounded ==
    /\ [](/\ \A c \in CacheKeys(channelCache) :
               CHANNEL_MAP[c] # NULL /\ CHANNEL_MAP[c] # EMPTY
          /\ Cardinality(CacheKeys(channelCache)) <= ValidCount)
    /\ [][CacheKeys(channelCache) \subseteq CacheKeys(channelCache') \/ IsRefresh]_vars

\* A loader that started when an entry was an hour old has passed it over,
\* its fetch of the channel has failed, and the expired entry is still in the
\* cache; the registry has a key without an upstream id, which has no entry.
C37_Witness ==
    \E r \in Slots, c \in TvgIds :
        /\ req[r].pc = "loaded"
        /\ channelCache[c].present
        /\ req[r].loaderNow - channelCache[c].timestamp >= 60 * 60 * 1000
        /\ c \in req[r].failed
        /\ ValidCount < NumChannels
        /\ Cardinality(CacheKeys(channelCache)) = ValidCount

\* C38: a call of fetchChannelEPG that has not completed, response received
\* and payload read, when its own timeout (4 s hobby, 6 s enhanced) has
\* elapsed is cancelled and counts as a failure: past the timeout no call is
\* still pending, and none resolves to a payload later than that.  The
\* timeout of one call changes nothing about another call of the batch.
C38_PerFetchTimeout ==
    /\ [](\A k \in 1..Len(fetches) :
            LET f == fetches[k]
                limit == IF variant = "hobby" THEN 4000 ELSE 6000
            IN  /\ clock - f.startedAt > limit => f.phase = "settled"
                /\ (f.phase = "settled" /\ f.ok) => f.settledAt - f.startedAt <= limit)
    /\ [][\A k, l \in 1..Len(fetches) :
            (k # l /\ fetches'[k].aborted /\ ~fetches[k].aborted)
               => fetches'[l] = fetches[l]]_vars
====
